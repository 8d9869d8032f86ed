--------------------------- MODULE ForEachRefinement ---------------------------
(***************************************************************************)
(* galois::for_each is a loop over an unordered set: whatever the threads, *)
(* sockets, chunks and conflicts, no item is lost, none is processed twice *)
(* and the loop does not end with one left.  The items in all the places   *)
(* the implementation keeps them are accounted for, step by step.          *)
(***************************************************************************)
EXTENDS ForEachProofs

\* Appending and taking keep items from being twice in a place.
LEMMA OnceAppend ==
  ASSUME NEW S, NEW c \in Seq(S), NEW x \in S, Once(c), x \notin Range(c)
  PROVE  Once(Append(c, x))
<1>1. /\ Len(c) \in Nat /\ DOMAIN c = 1 .. Len(c)
      /\ DOMAIN Append(c, x) = 1 .. Len(c) + 1
      /\ \A i \in 1 .. Len(c) : Append(c, x)[i] = c[i]
      /\ Append(c, x)[Len(c) + 1] = x
  OBVIOUS
<1>2. \A i \in 1 .. Len(c) : c[i] # x
  BY <1>1 DEF Range
<1>3. \A i \in 1 .. Len(c) + 1 : i = Len(c) + 1 \/ i \in 1 .. Len(c)
  BY <1>1
<1> QED BY <1>1, <1>2, <1>3 DEF Once, IsInjective

LEMMA OnceTail ==
  ASSUME NEW S, NEW c \in Seq(S), c # <<>>, Once(c)
  PROVE  Once(Tail(c)) /\ Range(Tail(c)) = Range(c) \ {Head(c)} /\ Head(c) \in Range(c)
<1>1. /\ Len(c) \in Nat \ {0} /\ DOMAIN c = 1 .. Len(c) /\ Head(c) = c[1]
      /\ DOMAIN Tail(c) = 1 .. Len(c) - 1
      /\ \A i \in 1 .. Len(c) - 1 : Tail(c)[i] = c[i + 1]
  <2>1. Tail(c) \in Seq(S) /\ Len(Tail(c)) = Len(c) - 1 /\ Len(c) \in Nat \ {0} /\ Head(c) = c[1]
    BY HeadAndTail
  <2> QED BY <2>1, HeadAndTail
<1>2. \A i \in 1 .. Len(c) - 1 : i + 1 \in 1 .. Len(c) /\ i + 1 # 1
  BY <1>1
<1>3. Once(Tail(c))
  <2> SUFFICES ASSUME NEW i \in 1 .. Len(c) - 1, NEW j \in 1 .. Len(c) - 1, c[i + 1] = c[j + 1]
               PROVE  i = j
    BY <1>1 DEF Once, IsInjective
  <2>1. i + 1 = j + 1
    BY <1>1, <1>2 DEF Once, IsInjective
  <2> QED BY <1>1, <2>1
<1>4. Head(c) \notin Range(Tail(c))
  <2>1. \A i \in 1 .. Len(c) - 1 : c[i + 1] # c[1]
    BY <1>1, <1>2 DEF Once, IsInjective
  <2> QED BY <1>1, <2>1 DEF Range
<1>5. Range(c) = Range(Tail(c)) \cup {Head(c)}
  BY SetOfHeadTail
<1> QED BY <1>3, <1>4, <1>5

LEMMA AbortedAppend ==
  ASSUME NEW a \in Seq(Items \X Nat), NEW x \in Items \X Nat, AbortedOnce(a),
         x[1] \notin FirstsOf(a)
  PROVE  /\ AbortedOnce(Append(a, x))
         /\ FirstsOf(Append(a, x)) = FirstsOf(a) \cup {x[1]}
<1>1. /\ Len(a) \in Nat /\ DOMAIN a = 1 .. Len(a)
      /\ DOMAIN Append(a, x) = 1 .. Len(a) + 1
      /\ \A i \in 1 .. Len(a) : Append(a, x)[i] = a[i]
      /\ Append(a, x)[Len(a) + 1] = x
  OBVIOUS
<1>2. \A i \in 1 .. Len(a) : a[i][1] # x[1]
  BY <1>1, ZenonT(30) DEF Range, FirstsOf
<1>3. \A i \in 1 .. Len(a) + 1 : i = Len(a) + 1 \/ i \in 1 .. Len(a)
  BY <1>1
<1>4. AbortedOnce(Append(a, x))
  BY <1>1, <1>2, <1>3 DEF AbortedOnce
<1>5. Range(Append(a, x)) = Range(a) \cup {x}
  BY SetOfAppend
<1>6. FirstsOf(Append(a, x)) = FirstsOf(a) \cup {x[1]}
  BY <1>5 DEF FirstsOf
<1> QED BY <1>4, <1>6

LEMMA AbortedTail ==
  ASSUME NEW S, NEW a \in Seq(S), a # <<>>, AbortedOnce(a)
  PROVE  /\ AbortedOnce(Tail(a))
         /\ FirstsOf(Tail(a)) = FirstsOf(a) \ {Head(a)[1]}
         /\ Head(a)[1] \in FirstsOf(a)
<1>1. /\ Len(a) \in Nat \ {0} /\ DOMAIN a = 1 .. Len(a) /\ Head(a) = a[1]
      /\ DOMAIN Tail(a) = 1 .. Len(a) - 1
      /\ \A i \in 1 .. Len(a) - 1 : Tail(a)[i] = a[i + 1]
  <2>1. Tail(a) \in Seq(S) /\ Len(Tail(a)) = Len(a) - 1 /\ Len(a) \in Nat \ {0} /\ Head(a) = a[1]
    BY HeadAndTail
  <2> QED BY <2>1, HeadAndTail
<1>2. \A i \in 1 .. Len(a) - 1 : i + 1 \in 1 .. Len(a) /\ i + 1 # 1
  BY <1>1
<1>3. AbortedOnce(Tail(a))
  <2> SUFFICES ASSUME NEW i \in 1 .. Len(a) - 1, NEW j \in 1 .. Len(a) - 1,
                      a[i + 1][1] = a[j + 1][1]
               PROVE  i = j
    BY <1>1 DEF AbortedOnce
  <2>1. i + 1 = j + 1
    BY <1>1, <1>2 DEF AbortedOnce
  <2> QED BY <1>1, <2>1
<1>4. \A y \in Range(Tail(a)) : y[1] # Head(a)[1]
  <2>1. \A i \in 1 .. Len(a) - 1 : a[i + 1][1] # a[1][1]
    BY <1>1, <1>2 DEF AbortedOnce
  <2> QED BY <1>1, <2>1 DEF Range
<1>5. Range(a) = Range(Tail(a)) \cup {Head(a)}
  BY SetOfHeadTail
<1>6. FirstsOf(Tail(a)) = FirstsOf(a) \ {Head(a)[1]} /\ Head(a)[1] \in FirstsOf(a)
  BY <1>4, <1>5 DEF FirstsOf
<1> QED BY <1>3, <1>6

ItemsIn(q) == UNION {Range(c) : c \in Range(q)}

LEMMA ItemsInIs ==
  ASSUME NEW q, NEW r, NEW c, Range(q) = Range(r) \cup {c}
  PROVE  /\ ItemsIn(q) = ItemsIn(r) \cup Range(c)
         /\ (\A d \in Range(r) : Range(d) \cap Range(c) = {}) =>
              ItemsIn(r) = ItemsIn(q) \ Range(c)
<1>1. \A x : x \in ItemsIn(q) <=> \E d \in Range(q) : x \in Range(d)
  BY DEF ItemsIn
<1>2. \A x : x \in ItemsIn(r) <=> \E d \in Range(r) : x \in Range(d)
  BY DEF ItemsIn
<1>3. ItemsIn(q) = ItemsIn(r) \cup Range(c)
  BY <1>1, <1>2
<1>4. (\A d \in Range(r) : Range(d) \cap Range(c) = {}) => ItemsIn(r) \cap Range(c) = {}
  BY <1>2
<1> QED BY <1>3, <1>4

LEMMA QueueAppend ==
  ASSUME NEW S, NEW q \in Seq(S), NEW c \in S, ChunksOnce(q), Once(c),
         Range(c) \cap ItemsIn(q) = {}
  PROVE  /\ ChunksOnce(Append(q, c))
         /\ ItemsIn(Append(q, c)) = ItemsIn(q) \cup Range(c)
<1>1. /\ Len(q) \in Nat /\ DOMAIN q = 1 .. Len(q)
      /\ DOMAIN Append(q, c) = 1 .. Len(q) + 1
      /\ \A i \in 1 .. Len(q) : Append(q, c)[i] = q[i]
      /\ Append(q, c)[Len(q) + 1] = c
  OBVIOUS
<1>2. \A i \in 1 .. Len(q) : Range(q[i]) \cap Range(c) = {}
  <2>1. \A i \in 1 .. Len(q) : q[i] \in Range(q)
    BY <1>1 DEF Range
  <2> QED BY <2>1 DEF ItemsIn
<1>3. \A i \in 1 .. Len(q) + 1 : i = Len(q) + 1 \/ i \in 1 .. Len(q)
  BY <1>1
<1>4. \A i \in DOMAIN Append(q, c) : Once(Append(q, c)[i])
  BY <1>1, <1>3 DEF ChunksOnce
<1>5. \A i, j \in DOMAIN Append(q, c) :
        i # j => Range(Append(q, c)[i]) \cap Range(Append(q, c)[j]) = {}
  <2> SUFFICES ASSUME NEW i \in 1 .. Len(q) + 1, NEW j \in 1 .. Len(q) + 1, i # j
               PROVE  Range(Append(q, c)[i]) \cap Range(Append(q, c)[j]) = {}
    BY <1>1
  <2>1. CASE i = Len(q) + 1
    BY <1>1, <1>2, <1>3, <2>1
  <2>2. CASE j = Len(q) + 1
    BY <1>1, <1>2, <1>3, <2>2
  <2>3. CASE i \in 1 .. Len(q) /\ j \in 1 .. Len(q)
    BY <1>1, <2>3 DEF ChunksOnce
  <2> QED BY <1>3, <2>1, <2>2, <2>3, ZenonT(30)
<1>6. Range(Append(q, c)) = Range(q) \cup {c}
  BY SetOfAppend
<1>7. ItemsIn(Append(q, c)) = ItemsIn(q) \cup Range(c)
  BY <1>6, ItemsInIs
<1> QED BY <1>4, <1>5, <1>7, ZenonT(30) DEF ChunksOnce

LEMMA QueueTail ==
  ASSUME NEW S, NEW q \in Seq(S), q # <<>>, ChunksOnce(q)
  PROVE  /\ ChunksOnce(Tail(q)) /\ Once(Head(q))
         /\ ItemsIn(Tail(q)) = ItemsIn(q) \ Range(Head(q))
         /\ Range(Head(q)) \subseteq ItemsIn(q)
<1>1. /\ Len(q) \in Nat \ {0} /\ DOMAIN q = 1 .. Len(q) /\ Head(q) = q[1]
      /\ DOMAIN Tail(q) = 1 .. Len(q) - 1
      /\ \A i \in 1 .. Len(q) - 1 : Tail(q)[i] = q[i + 1]
  <2>1. Tail(q) \in Seq(S) /\ Len(Tail(q)) = Len(q) - 1 /\ Len(q) \in Nat \ {0} /\ Head(q) = q[1]
    BY HeadAndTail
  <2> QED BY <2>1, HeadAndTail
<1>2. \A i \in 1 .. Len(q) - 1 : i + 1 \in 1 .. Len(q) /\ i + 1 # 1
  BY <1>1
<1>3. ChunksOnce(Tail(q))
  <2>1. \A i \in 1 .. Len(q) - 1 : Once(Tail(q)[i])
    BY <1>1, <1>2 DEF ChunksOnce
  <2>2. ASSUME NEW i \in 1 .. Len(q) - 1, NEW j \in 1 .. Len(q) - 1, i # j
        PROVE  Range(Tail(q)[i]) \cap Range(Tail(q)[j]) = {}
    <3>1. i + 1 # j + 1
      BY <1>1, <2>2
    <3>2. Range(q[i + 1]) \cap Range(q[j + 1]) = {}
      BY <1>1, <1>2, <3>1 DEF ChunksOnce
    <3> QED BY <1>1, <3>2
  <2> QED BY <1>1, <2>1, <2>2 DEF ChunksOnce
<1>4. ASSUME NEW d \in Range(Tail(q)) PROVE Range(d) \cap Range(Head(q)) = {}
  <2>1. PICK i \in 1 .. Len(q) - 1 : d = q[i + 1]
    BY <1>1, <1>4 DEF Range
  <2>2. Range(q[i + 1]) \cap Range(q[1]) = {}
    BY <1>1, <1>2 DEF ChunksOnce
  <2> QED BY <1>1, <2>1, <2>2
<1>5. Range(q) = Range(Tail(q)) \cup {Head(q)}
  BY SetOfHeadTail
<1>6. Once(Head(q))
  BY <1>1 DEF ChunksOnce
<1> QED BY <1>3, <1>4, <1>5, <1>6, ItemsInIs

-----------------------------------------------------------------------------
\* Moving items from one place to another.
Moves(f, g, P, a, b, M) ==
  /\ a \in P /\ b \in P /\ a # b /\ M \subseteq f[a]
  /\ g[a] = f[a] \ M
  /\ g[b] = f[b] \cup M
  /\ \A p \in P \ {a, b} : g[p] = f[p]

LEMMA MovingKeepsApart ==
  ASSUME NEW P, NEW f, NEW g, NEW a, NEW b, NEW M, Moves(f, g, P, a, b, M), ApartIn(f, P)
  PROVE  ApartIn(g, P)
<1> SUFFICES ASSUME NEW p \in P, NEW q \in P, p # q PROVE g[p] \cap g[q] = {}
  BY DEF ApartIn
<1> USE DEF Moves, ApartIn
<1>1. f[p] \cap f[q] = {}
  OBVIOUS
<1>2. \A r \in P \ {a} : f[r] \cap M = {}
  <2>1. \A r \in P \ {a} : f[r] \cap f[a] = {}
    OBVIOUS
  <2> QED BY <2>1, Zenon
<1>3. CASE p # b /\ q # b
  <2>1. \A r \in P \ {b} : g[r] \subseteq f[r]
    OBVIOUS
  <2> QED BY <1>1, <1>3, <2>1
<1>4. ASSUME NEW r \in P \ {b} PROVE g[r] \cap g[b] = {}
  <2>1. f[r] \cap f[b] = {}
    OBVIOUS
  <2>2. g[r] \subseteq f[r] /\ g[r] \cap M = {}
    BY <1>2
  <2> QED BY <2>1, <2>2
<1> QED BY <1>3, <1>4

LEMMA MovingKeepsAll ==
  ASSUME NEW P, NEW f, NEW g, NEW a, NEW b, NEW M, Moves(f, g, P, a, b, M),
         NEW R \in SUBSET P, a \in R, b \in R
  PROVE  \A x : (\E p \in R : x \in g[p]) <=> (\E p \in R : x \in f[p])
<1> TAKE x
<1> USE DEF Moves
<1>1. ASSUME NEW p \in R, x \in g[p] PROVE \E q \in R : x \in f[q]
  <2>1. CASE p # b
    BY <1>1, <2>1
  <2>2. CASE p = b
    BY <1>1, <2>2
  <2> QED BY <2>1, <2>2
<1>2. ASSUME NEW p \in R, x \in f[p] PROVE \E q \in R : x \in g[q]
  <2>1. CASE x \in M
    BY <2>1
  <2>2. CASE x \notin M
    BY <1>2, <2>2
  <2> QED BY <2>1, <2>2
<1> QED BY <1>1, <1>2

\* Putting new items in a place.
Adds(f, g, P, b, N) ==
  /\ b \in P
  /\ g[b] = f[b] \cup N
  /\ \A p \in P \ {b} : g[p] = f[p]
  /\ \A p \in P : f[p] \cap N = {}

LEMMA AddingKeepsApart ==
  ASSUME NEW P, NEW f, NEW g, NEW b, NEW N, ApartIn(f, P), Adds(f, g, P, b, N)
  PROVE  ApartIn(g, P)
<1> USE DEF Adds
<1> SUFFICES ASSUME NEW p \in P, NEW q \in P, p # q PROVE g[p] \cap g[q] = {}
  BY DEF ApartIn
<1>1. CASE p # b /\ q # b
  BY <1>1 DEF ApartIn
<1>2. ASSUME NEW r \in P \ {b} PROVE g[r] \cap g[b] = {}
  <2>1. f[r] \cap f[b] = {} /\ f[r] \cap N = {}
    BY DEF ApartIn
  <2> QED BY <2>1
<1> QED BY <1>1, <1>2

-----------------------------------------------------------------------------
\* The places one by one.
Spelled ==
  /\ \A t \in Threads : /\ <<"cur", t>> \in Places /\ Contents[<<"cur", t>>] = Range(cur[t])
                        /\ <<"next", t>> \in Places /\ Contents[<<"next", t>>] = Range(next[t])
                        /\ <<"push", t>> \in Places /\ Contents[<<"push", t>>] = Range(pushBuffer[t])
                        /\ <<"aborted", t>> \in Places /\ Contents[<<"aborted", t>>] = InAborted(t)
                        /\ <<"hand", t>> \in Places /\ Contents[<<"hand", t>>] = InHand(t)
  /\ \A s \in Sockets : <<"queue", s>> \in Places /\ Contents[<<"queue", s>>] = InQueue(s)
  /\ <<"done", 0>> \in Places /\ Contents[<<"done", 0>>] = done

LEMMA ContentsAre == Spelled
<1>1. \A t \in Threads : <<"cur", t>> \in Places /\ Contents[<<"cur", t>>] = Range(cur[t])
  BY DEF Contents, Places
<1>2. \A t \in Threads : <<"next", t>> \in Places /\ Contents[<<"next", t>>] = Range(next[t])
  BY DEF Contents, Places
<1>3. \A t \in Threads : <<"push", t>> \in Places /\ Contents[<<"push", t>>] = Range(pushBuffer[t])
  BY DEF Contents, Places
<1>4. \A t \in Threads : <<"aborted", t>> \in Places /\ Contents[<<"aborted", t>>] = InAborted(t)
  BY DEF Contents, Places
<1>5. \A t \in Threads : <<"hand", t>> \in Places /\ Contents[<<"hand", t>>] = InHand(t)
  BY DEF Contents, Places
<1>6. \A s \in Sockets : <<"queue", s>> \in Places /\ Contents[<<"queue", s>>] = InQueue(s)
  BY DEF Contents, Places
<1>7. <<"done", 0>> \in Places /\ Contents[<<"done", 0>>] = done
  BY DEF Contents, Places
<1> QED BY <1>1, <1>2, <1>3, <1>4, <1>5, <1>6, <1>7 DEF Spelled

LEMMA PlacesAre ==
  ASSUME NEW p \in Places
  PROVE  \/ \E t \in Threads : p \in {<<"cur", t>>, <<"next", t>>, <<"push", t>>,
                                     <<"aborted", t>>, <<"hand", t>>}
         \/ \E s \in Sockets : p = <<"queue", s>>
         \/ p = <<"done", 0>>
  BY DEF Places

\* A step that leaves alone what is in all but some places.
SameBut(S) ==
  /\ \A u \in Threads : /\ <<"cur", u>> \in S \/ UNCHANGED cur[u]
                        /\ <<"next", u>> \in S \/ UNCHANGED next[u]
                        /\ <<"push", u>> \in S \/ UNCHANGED pushBuffer[u]
                        /\ <<"aborted", u>> \in S \/ UNCHANGED aborted[u]
                        /\ <<"hand", u>> \in S \/ UNCHANGED InHand(u)
  /\ \A s \in Sockets : <<"queue", s>> \in S \/ UNCHANGED Q[s]
  /\ <<"done", 0>> \in S \/ UNCHANGED done

LEMMA ElsewhereSame ==
  ASSUME UNCHANGED machine, NEW S, SameBut(S)
  PROVE  \A p \in Places \ S : Contents'[p] = Contents[p]
<1>1. UNCHANGED <<Sockets, Places>>
  BY DEF Sockets, SocketOf, Places
<1>2. Spelled /\ Spelled'
  BY ContentsAre, PTL
<1> SUFFICES ASSUME NEW p \in Places \ S PROVE Contents'[p] = Contents[p]
  OBVIOUS
<1>3. ASSUME NEW u \in Threads, p = <<"cur", u>> PROVE Contents'[p] = Contents[p]
  <2>1. Contents[p] = Range(cur[u]) /\ Contents'[p] = Range(cur[u])'
    BY <1>2, <1>3, ZenonT(30) DEF Spelled
  <2> QED BY <1>3, <2>1, ZenonT(30) DEF SameBut
<1>4. ASSUME NEW u \in Threads, p = <<"next", u>> PROVE Contents'[p] = Contents[p]
  <2>1. Contents[p] = Range(next[u]) /\ Contents'[p] = Range(next[u])'
    BY <1>2, <1>4, ZenonT(30) DEF Spelled
  <2> QED BY <1>4, <2>1, ZenonT(30) DEF SameBut
<1>5. ASSUME NEW u \in Threads, p = <<"push", u>> PROVE Contents'[p] = Contents[p]
  <2>1. Contents[p] = Range(pushBuffer[u]) /\ Contents'[p] = Range(pushBuffer[u])'
    BY <1>2, <1>5, ZenonT(30) DEF Spelled
  <2> QED BY <1>5, <2>1, ZenonT(30) DEF SameBut
<1>6. ASSUME NEW u \in Threads, p = <<"aborted", u>> PROVE Contents'[p] = Contents[p]
  <2>1. Contents[p] = InAborted(u) /\ Contents'[p] = InAborted(u)'
    BY <1>2, <1>6, ZenonT(30) DEF Spelled
  <2> QED BY <1>6, <2>1, ZenonT(30) DEF SameBut, InAborted
<1>7. ASSUME NEW u \in Threads, p = <<"hand", u>> PROVE Contents'[p] = Contents[p]
  <2>1. Contents[p] = InHand(u) /\ Contents'[p] = InHand(u)'
    BY <1>2, <1>7, ZenonT(30) DEF Spelled
  <2> QED BY <1>7, <2>1, ZenonT(30) DEF SameBut
<1>8. ASSUME NEW s \in Sockets, p = <<"queue", s>> PROVE Contents'[p] = Contents[p]
  <2>1. Contents[p] = InQueue(s) /\ Contents'[p] = InQueue(s)'
    BY <1>1, <1>2, <1>8 DEF Spelled
  <2> QED BY <1>8, <2>1 DEF SameBut, InQueue
<1>9. ASSUME p = <<"done", 0>> PROVE Contents'[p] = Contents[p]
  BY <1>2, <1>9 DEF Spelled, SameBut
<1> QED BY <1>3, <1>4, <1>5, <1>6, <1>7, <1>8, <1>9, PlacesAre

\* An item is unfinished when it is in a place other than done.
Live == Places \ {<<"done", 0>>}

LEMMA UnfinishedIs == \A x : x \in Unfinished <=> \E p \in Live : x \in Contents[p]
<1> TAKE x
<1>1. Spelled
  BY ContentsAre
<1>2. x \in Unfinished <=> \/ \E t \in Threads : x \in Waiting(t)
                           \/ \E s \in Sockets : x \in InQueue(s)
  BY DEF Unfinished
<1>3. ASSUME NEW t \in Threads
      PROVE  x \in Waiting(t) <=> \/ x \in Contents[<<"cur", t>>]
                                  \/ x \in Contents[<<"next", t>>]
                                  \/ x \in Contents[<<"push", t>>]
                                  \/ x \in Contents[<<"aborted", t>>]
                                  \/ x \in Contents[<<"hand", t>>]
  BY <1>1, ZenonT(30) DEF Spelled, Waiting, InAborted, FirstsOf
<1>4. \A t \in Threads : {<<"cur", t>>, <<"next", t>>, <<"push", t>>, <<"aborted", t>>,
                          <<"hand", t>>} \subseteq Live
  BY DEF Live, Places
<1>5. \A s \in Sockets : <<"queue", s>> \in Live /\ Contents[<<"queue", s>>] = InQueue(s)
  BY <1>1, ZenonT(30) DEF Live, Places, Spelled
<1>6. ASSUME NEW p \in Live, x \in Contents[p] PROVE x \in Unfinished
  <2>1. CASE \E s \in Sockets : p = <<"queue", s>>
    BY <1>2, <1>5, <1>6, <2>1
  <2>2. ASSUME NEW t \in Threads, p \in {<<"cur", t>>, <<"next", t>>, <<"push", t>>,
                                        <<"aborted", t>>, <<"hand", t>>}
        PROVE  x \in Unfinished
    BY <1>2, <1>3, <1>6, <2>2, ZenonT(30)
  <2> QED BY <2>1, <2>2, PlacesAre DEF Live
<1>7. ASSUME x \in Unfinished PROVE \E p \in Live : x \in Contents[p]
  <2>1. ASSUME NEW t \in Threads, x \in Waiting(t) PROVE \E p \in Live : x \in Contents[p]
    BY <1>3, <1>4, <2>1, ZenonT(30)
  <2>2. ASSUME NEW s \in Sockets, x \in InQueue(s) PROVE \E p \in Live : x \in Contents[p]
    BY <1>5, <2>2, ZenonT(30)
  <2> QED BY <1>2, <1>7, <2>1, <2>2
<1> QED BY <1>6, <1>7

\* So a step that moves items between such places keeps them.
LEMMA MovingStep ==
  ASSUME Apart, UNCHANGED machine, NEW f, NEW a \in Live, NEW b \in Live, NEW M,
         NEW c \in Live, NEW d \in Live, NEW N,
         Moves(Contents, f, Places, a, b, M),
         Moves(f, Contents', Places, c, d, N) \/ f = Contents'
  PROVE  Apart' /\ UNCHANGED Unfinished
<1>1. UNCHANGED <<Places, Live>> /\ Live \in SUBSET Places
  BY DEF Places, Live, Sockets, SocketOf
<1>2. ApartIn(f, Places)
  BY MovingKeepsApart DEF Apart
<1>3. ApartIn(Contents', Places)
  BY <1>2, MovingKeepsApart
<1>4. \A x : (\E p \in Live : x \in f[p]) <=> (\E p \in Live : x \in Contents[p])
  BY <1>1, MovingKeepsAll
<1>5. \A x : (\E p \in Live : x \in Contents'[p]) <=> (\E p \in Live : x \in f[p])
  BY <1>1, MovingKeepsAll
<1>6. (\A x : x \in Unfinished <=> \E p \in Live : x \in Contents[p])'
  BY UnfinishedIs, PTL
<1>7. \A x : x \in Unfinished' <=> x \in Unfinished
  BY <1>1, <1>4, <1>5, <1>6, UnfinishedIs, ZenonT(30)
<1>8. Unfinished' = Unfinished
  BY <1>7
<1> QED BY <1>1, <1>3, <1>8 DEF Apart

\* An iteration's item is in its thread's hand.
LEMMA InHandIs ==
  \A t \in Threads :
    InHand(t) = IF pc[t] \in {"work", "cancel", "abort"} THEN {item[t][1]} ELSE {}
  BY DEF InHand

LEMMA PlacesStay ==
  ASSUME UNCHANGED machine
  PROVE  Spelled /\ Spelled' /\ UNCHANGED <<Sockets, SocketOf, Places, Live>>
<1>1. Spelled /\ Spelled'
  BY ContentsAre, PTL
<1> QED BY <1>1 DEF Live, Places, Sockets, SocketOf

-----------------------------------------------------------------------------
\* Pushing moves an item to the thread's chunk, after it has moved a full one
\* to the queue.
LEMMA PushMoves ==
  ASSUME StateTypes, Apart, NoneTwice, NEW t \in Threads, PushOne(t), UNCHANGED machine
  PROVE  Apart' /\ NoneTwice' /\ UNCHANGED Unfinished
<1> USE DEF StateTypes, WlTypes, LoopTypes
<1>0. Spelled /\ Spelled' /\ UNCHANGED <<Sockets, SocketOf, Places>> /\ SocketOf[t] \in Sockets
  BY PlacesStay, SocketsOfThreads
<1> PICK x : x = Head(pushBuffer[t])
  OBVIOUS
<1> PICK s \in Sockets : s = SocketOf[t]
  BY <1>0
<1> DEFINE a == <<"push", t>>
           b == <<"next", t>>
           q == <<"queue", s>>
<1>1. /\ pushBuffer[t] # <<>> /\ Emplace(t, x)
      /\ pushBuffer' = [pushBuffer EXCEPT ![t] = Tail(@)]
      /\ UNCHANGED <<aborted, pc, item, done, cur>>
  BY ZenonT(30) DEF PushOne, Emplace, iterVars
<1>2. /\ Once(Tail(pushBuffer[t])) /\ Range(Tail(pushBuffer[t])) = Range(pushBuffer[t]) \ {x}
      /\ x \in Range(pushBuffer[t]) /\ x \in Items
  BY <1>1, OnceTail, HeadAndTail DEF NoneTwice
<1>3. /\ pushBuffer'[t] = Tail(pushBuffer[t])
      /\ \A u \in Threads \ {t} : pushBuffer'[u] = pushBuffer[u]
  BY <1>1
<1>4. a \in Live /\ b \in Live /\ q \in Live /\ a # b /\ a # q /\ b # q
  BY <1>0 DEF Live, Places
<1>5. /\ Contents[a] = Range(pushBuffer[t]) /\ Contents'[a] = Contents[a] \ {x}
      /\ Contents[b] = Range(next[t]) /\ Contents'[b] = Range(next'[t])
      /\ Contents[q] = InQueue(s) /\ Contents'[q] = InQueue(s)'
  BY <1>0, <1>2, <1>3, ZenonT(30) DEF Spelled
<1>6. \A u \in Threads : UNCHANGED InHand(u)
  BY <1>1 DEF InHand
<1>7. x \notin Range(next[t]) /\ Range(next[t]) \cap InQueue(s) = {}
  <2>1. Contents[a] \cap Contents[b] = {} /\ Contents[b] \cap Contents[q] = {}
    BY <1>4, ZenonT(30) DEF Apart, ApartIn, Live
  <2> QED BY <1>2, <1>5, <2>1
<1>8. CASE Len(next[t]) < ChunkSize
  <2>1. next' = [next EXCEPT ![t] = Append(@, x)] /\ UNCHANGED Q
    BY <1>1, <1>8, ChunkSizeAssumption DEF Emplace
  <2>2. Range(next'[t]) = Range(next[t]) \cup {x} /\ Once(next'[t])
    BY <1>2, <1>7, <2>1, SetOfAppend, OnceAppend DEF NoneTwice
  <2>3. \A u \in Threads \ {t} : next'[u] = next[u]
    BY <2>1
  <2>4. \A p \in Places \ {a, b} : Contents'[p] = Contents[p]
    <3>1. SameBut({a, b})
      BY <1>1, <1>3, <1>6, <2>1, <2>3 DEF SameBut
    <3> QED BY <3>1, ElsewhereSame
  <2>5. Moves(Contents, Contents', Places, a, b, {x})
    BY <1>2, <1>4, <1>5, <2>2, <2>4 DEF Moves, Live
  <2>6. NoneTwice'
    BY <1>0, <1>1, <1>2, <1>3, <2>1, <2>2, <2>3 DEF NoneTwice
  <2> QED BY <1>4, <2>5, <2>6, MovingStep, ZenonT(30)
<1>9. CASE Len(next[t]) = ChunkSize
  <2>1. /\ Q' = [Q EXCEPT ![s] = Append(@, next[t])]
        /\ next' = [next EXCEPT ![t] = <<x>>]
    BY <1>1, <1>9, ChunkSizeAssumption DEF Emplace
  <2>2. Q'[s] = Append(Q[s], next[t]) /\ \A r \in Sockets \ {s} : Q'[r] = Q[r]
    BY <1>0, <2>1
  <2>3. next'[t] = <<x>> /\ \A u \in Threads \ {t} : next'[u] = next[u]
    BY <2>1
  <2>4. Range(next'[t]) = {x} /\ Once(next'[t])
    BY <2>3 DEF Range, Once, IsInjective
  <2>5. ChunksOnce(Q'[s]) /\ InQueue(s)' = InQueue(s) \cup Range(next[t])
    <3>1. InQueue(s) = ItemsIn(Q[s]) /\ InQueue(s)' = ItemsIn(Q'[s])
      BY DEF InQueue, ItemsIn
    <3>2. ChunksOnce(Q[s]) /\ Once(next[t])
      BY DEF NoneTwice
    <3>3. /\ ChunksOnce(Append(Q[s], next[t]))
          /\ ItemsIn(Append(Q[s], next[t])) = ItemsIn(Q[s]) \cup Range(next[t])
      BY <1>7, <3>1, <3>2, QueueAppend
    <3> QED BY <2>2, <3>1, <3>3
  <2>6. \A p \in Places \ {a, b, q} : Contents'[p] = Contents[p]
    <3>1. SameBut({a, b, q})
      BY <1>1, <1>3, <1>6, <2>2, <2>3 DEF SameBut
    <3> QED BY <3>1, ElsewhereSame
  <2> DEFINE f == [Contents EXCEPT ![q] = @ \cup Range(next[t]), ![b] = {}]
  <2>7. /\ f[q] = Contents[q] \cup Range(next[t]) /\ f[b] = {}
        /\ \A p \in Places \ {b, q} : f[p] = Contents[p]
    BY <1>4, ZenonT(30) DEF Contents, Live
  <2> HIDE DEF f
  <2>8. Moves(Contents, f, Places, b, q, Range(next[t]))
    BY <1>4, <1>5, <2>7 DEF Moves, Live
  <2>9. Moves(f, Contents', Places, a, b, {x})
    BY <1>2, <1>4, <1>5, <2>4, <2>5, <2>6, <2>7, ZenonT(30) DEF Moves, Live
  <2>10. NoneTwice'
    BY <1>0, <1>1, <1>2, <1>3, <2>2, <2>3, <2>4, <2>5, ZenonT(30) DEF NoneTwice
  <2> QED BY <1>4, <2>8, <2>9, <2>10, MovingStep
<1> QED BY <1>1, <1>8, <1>9 DEF Emplace

\* Popping moves an item from the thread's chunk to its hand.
LEMMA PopMoves ==
  ASSUME StateTypes, Apart, NoneTwice, NEW t \in Threads, PopItem(t), UNCHANGED machine
  PROVE  Apart' /\ NoneTwice' /\ UNCHANGED Unfinished
<1> USE DEF StateTypes, WlTypes, LoopTypes
<1> DEFINE a == <<"cur", t>>
           b == <<"hand", t>>
<1>0. Spelled /\ Spelled' /\ UNCHANGED <<Sockets, SocketOf, Places>>
  BY PlacesStay
<1>1. PICK x \in Range(cur[t]) : ExtractFront(t, x) /\ StartIteration(t, <<x, 0>>)
  BY ZenonT(30) DEF PopItem
<1>2. /\ pc[t] = "pop" /\ UNCHANGED <<aborted, pushBuffer, done, next, Q>>
      /\ cur[t] # <<>> /\ x = Head(cur[t]) /\ cur' = [cur EXCEPT ![t] = Tail(@)]
      /\ item' = [item EXCEPT ![t] = <<x, 0>>] /\ pc' = [pc EXCEPT ![t] = "work"]
  BY <1>1 DEF PopItem, ExtractFront, StartIteration, Goto
<1>3. /\ Once(cur'[t]) /\ Range(cur'[t]) = Range(cur[t]) \ {x}
      /\ \A u \in Threads \ {t} : cur'[u] = cur[u]
  BY <1>2, OnceTail DEF NoneTwice
<1>4. InHand(t) = {} /\ InHand(t)' = {x}
  BY <1>2 DEF InHand
<1>5. \A u \in Threads \ {t} : UNCHANGED InHand(u)
  BY <1>2 DEF InHand
<1>6. a \in Live /\ b \in Live /\ a # b
  BY DEF Live, Places
<1>7. SameBut({a, b})
  BY <1>2, <1>3, <1>5 DEF SameBut
<1>8. Moves(Contents, Contents', Places, a, b, {x})
  <2>1. /\ Contents[a] = Range(cur[t]) /\ Contents'[a] = Range(cur'[t])
        /\ Contents[b] = InHand(t) /\ Contents'[b] = InHand(t)'
    BY <1>0, ZenonT(30) DEF Spelled
  <2>2. \A p \in Places \ {a, b} : Contents'[p] = Contents[p]
    BY <1>7, ElsewhereSame
  <2> QED BY <1>3, <1>4, <1>6, <2>1, <2>2 DEF Moves, Live
<1>9. NoneTwice'
  BY <1>0, <1>2, <1>3 DEF NoneTwice
<1> QED BY <1>6, <1>8, <1>9, MovingStep, ZenonT(30)

\* Looking for a chunk moves one from a queue, or the thread's other one.
LEMMA SearchMoves ==
  ASSUME StateTypes, Apart, NoneTwice, NEW t \in Threads, UNCHANGED machine,
         PopChunk(t) \/ TakeNext(t),
         UNCHANGED <<aborted, pc, item, pushBuffer, done>>
  PROVE  Apart' /\ NoneTwice' /\ UNCHANGED Unfinished
<1> USE DEF StateTypes, WlTypes, LoopTypes
<1>0. Spelled /\ Spelled' /\ UNCHANGED <<Sockets, SocketOf, Places>>
  BY PlacesStay
<1>1. \A u \in Threads : UNCHANGED InHand(u)
  BY DEF InHand
<1> DEFINE b == <<"cur", t>>
<1>2. cur[t] = <<>> /\ Range(cur[t]) = {}
  BY SetOfEmpty DEF PopChunk, TakeNext
<1>3. CASE PopChunk(t)
  <2>1. PICK s \in Sockets : s = QueueToLookAt(t)
    BY <1>3, LooksAtAQueue DEF PopChunk
  <2> DEFINE a == <<"queue", s>>
             c == Head(Q[s])
  <2>2. /\ Q[s] # <<>> /\ cur' = [cur EXCEPT ![t] = c] /\ Q' = [Q EXCEPT ![s] = Tail(@)]
        /\ UNCHANGED next
    BY <1>3, <2>1 DEF PopChunk
  <2>3. /\ cur'[t] = c /\ \A u \in Threads \ {t} : cur'[u] = cur[u]
        /\ Q'[s] = Tail(Q[s]) /\ \A r \in Sockets \ {s} : Q'[r] = Q[r]
    BY <2>2
  <2>4. /\ ChunksOnce(Tail(Q[s])) /\ Once(c)
        /\ ItemsIn(Tail(Q[s])) = ItemsIn(Q[s]) \ Range(c)
        /\ Range(c) \subseteq ItemsIn(Q[s])
    BY <2>2, QueueTail DEF NoneTwice
  <2> HIDE DEF c
  <2>5. InQueue(s) = ItemsIn(Q[s]) /\ InQueue(s)' = ItemsIn(Q'[s])
    BY DEF InQueue, ItemsIn
  <2>6. a \in Live /\ b \in Live /\ a # b
    BY DEF Live, Places
  <2>7. SameBut({a, b})
    BY <1>1, <2>2, <2>3 DEF SameBut
  <2>8. Moves(Contents, Contents', Places, a, b, Range(c))
    <3>1. /\ Contents[a] = InQueue(s) /\ Contents'[a] = InQueue(s)'
          /\ Contents[b] = Range(cur[t]) /\ Contents'[b] = Range(cur'[t])
      BY <1>0, ZenonT(30) DEF Spelled
    <3>2. \A p \in Places \ {a, b} : Contents'[p] = Contents[p]
      BY <2>7, ElsewhereSame
    <3> QED BY <1>2, <2>3, <2>4, <2>5, <2>6, <3>1, <3>2, SMTT(30) DEF Moves, Live
  <2>9. NoneTwice'
    BY <1>0, <2>2, <2>3, <2>4 DEF NoneTwice
  <2> QED BY <2>6, <2>8, <2>9, MovingStep, ZenonT(30)
<1>4. CASE TakeNext(t)
  <2> DEFINE a == <<"next", t>>
  <2>1. /\ cur' = [cur EXCEPT ![t] = next[t]] /\ next' = [next EXCEPT ![t] = <<>>]
        /\ UNCHANGED Q
    BY <1>4 DEF TakeNext
  <2>2. /\ cur'[t] = next[t] /\ next'[t] = <<>>
        /\ \A u \in Threads \ {t} : cur'[u] = cur[u] /\ next'[u] = next[u]
    BY <2>1
  <2>3. a \in Live /\ b \in Live /\ a # b
    BY DEF Live, Places
  <2>4. SameBut({a, b})
    BY <1>1, <2>1, <2>2 DEF SameBut
  <2>5. Moves(Contents, Contents', Places, a, b, Range(next[t]))
    <3>1. /\ Contents[a] = Range(next[t]) /\ Contents'[a] = Range(next'[t])
          /\ Contents[b] = Range(cur[t]) /\ Contents'[b] = Range(cur'[t])
      BY <1>0, ZenonT(30) DEF Spelled
    <3>2. \A p \in Places \ {a, b} : Contents'[p] = Contents[p]
      BY <2>4, ElsewhereSame
    <3> QED BY <1>2, <2>2, <2>3, <3>1, <3>2, SetOfEmpty DEF Moves, Live
  <2>6. Once(<<>>)
    BY DEF Once, IsInjective
  <2>7. NoneTwice'
    BY <1>0, <2>1, <2>2, <2>6 DEF NoneTwice
  <2> QED BY <2>3, <2>5, <2>7, MovingStep, ZenonT(30)
<1> QED BY <1>3, <1>4

\* An aborted item moves to its thread's hand, and from there to the thread
\* that the abort policy names.
LEMMA AbortedMoves ==
  ASSUME StateTypes, Apart, NoneTwice, NEW t \in Threads, UNCHANGED machine,
         PopAborted(t) \/ PushAborted(t)
  PROVE  Apart' /\ NoneTwice' /\ UNCHANGED Unfinished
<1> USE DEF StateTypes, WlTypes, LoopTypes
<1>0. /\ Spelled /\ Spelled' /\ UNCHANGED <<Sockets, SocketOf, Places>>
      /\ \A u \in Threads : /\ InAborted(u) = FirstsOf(aborted[u])
                            /\ InAborted(u)' = FirstsOf(aborted'[u])
  BY PlacesStay DEF InAborted
<1>1. UNCHANGED <<cur, next, Q, pushBuffer, done>>
  BY DEF PopAborted, PushAborted, wlVars
<1> DEFINE h == <<"hand", t>>
<1>2. CASE PopAborted(t)
  <2> DEFINE a == <<"aborted", t>>
  <2>1. PICK y \in Items \X Nat : y = Head(aborted[t])
    BY <1>2, HeadAndTail DEF PopAborted
  <2>2. /\ pc[t] = "pop" /\ aborted[t] # <<>> /\ aborted' = [aborted EXCEPT ![t] = Tail(@)]
        /\ item' = [item EXCEPT ![t] = y] /\ pc' = [pc EXCEPT ![t] = "work"]
    BY <1>2, <2>1 DEF PopAborted, StartIteration, Goto
  <2>3. /\ aborted'[t] = Tail(aborted[t])
        /\ \A u \in Threads \ {t} : aborted'[u] = aborted[u]
    BY <2>2
  <2>4. AbortedOnce(aborted'[t]) /\ InAborted(t)' = InAborted(t) \ {y[1]} /\ y[1] \in InAborted(t)
    BY <1>0, <2>1, <2>2, <2>3, AbortedTail DEF NoneTwice
  <2>5. InHand(t) = {} /\ InHand(t)' = {y[1]}
    BY <2>2 DEF InHand
  <2>6. \A u \in Threads \ {t} : UNCHANGED InHand(u)
    BY <2>2 DEF InHand
  <2>7. a \in Live /\ h \in Live /\ a # h
    BY DEF Live, Places
  <2>8. SameBut({a, h})
    BY <1>1, <2>3, <2>6 DEF SameBut
  <2>9. Moves(Contents, Contents', Places, a, h, {y[1]})
    <3>1. /\ Contents[a] = InAborted(t) /\ Contents'[a] = InAborted(t)'
          /\ Contents[h] = InHand(t) /\ Contents'[h] = InHand(t)'
      BY <1>0, ZenonT(30) DEF Spelled
    <3>2. \A p \in Places \ {a, h} : Contents'[p] = Contents[p]
      BY <2>8, ElsewhereSame
    <3> QED BY <2>4, <2>5, <2>7, <3>1, <3>2 DEF Moves, Live
  <2>10. NoneTwice'
    BY <1>0, <1>1, <2>3, <2>4, ZenonT(30) DEF NoneTwice
  <2> QED BY <2>7, <2>9, <2>10, MovingStep, ZenonT(30)
<1>3. CASE PushAborted(t)
  <2>1. PICK i \in Items, r \in Nat : i = item[t][1] /\ r = NextRetries(item[t][2])
    <3>1. item[t] \in Items \X Nat
      BY <1>3 DEF PushAborted, Working
    <3> QED BY <3>1 DEF NextRetries
  <2>2. PICK u \in Threads : u = AbortPolicy(t, r)
    BY PolicyNamesAThread
  <2> DEFINE b == <<"aborted", u>>
  <2>3. /\ pc[t] = "abort" /\ aborted' = [aborted EXCEPT ![u] = Append(@, <<i, r>>)]
        /\ \A v \in Threads \ {t} : item'[v] = item[v] /\ pc'[v] = pc[v]
        /\ pc'[t] \in {"pop", "term"}
    <3>1. aborted' = [aborted EXCEPT ![u] = Append(@, <<i, r>>)]
      BY <1>3, <2>1, <2>2, Zenon DEF PushAborted
    <3>2. pc[t] = "abort" /\ pc' = [pc EXCEPT ![t] = IF loop[t] = "worklist" THEN "pop" ELSE "term"]
      BY <1>3, Zenon DEF PushAborted, Goto
    <3>3. item' = [item EXCEPT ![t] = <<>>]
      BY <1>3, Zenon DEF PushAborted
    <3> QED BY <3>1, <3>2, <3>3
  <2>4. /\ aborted'[u] = Append(aborted[u], <<i, r>>)
        /\ \A v \in Threads \ {u} : aborted'[v] = aborted[v]
    BY <2>3, ZenonT(30)
  <2>5. InHand(t) = {i} /\ InHand(t)' = {}
    BY <2>1, <2>3, ZenonT(30) DEF InHand
  <2>6. ASSUME NEW v \in Threads \ {t} PROVE UNCHANGED InHand(v)
    <3>1. item'[v] = item[v] /\ pc'[v] = pc[v]
      BY <2>3
    <3> QED BY <3>1, Zenon DEF InHand
  <2>7. b \in Live /\ h \in Live /\ b # h
    BY DEF Live, Places
  <2>8. /\ Contents[b] = InAborted(u) /\ Contents'[b] = InAborted(u)'
        /\ Contents[h] = InHand(t) /\ Contents'[h] = InHand(t)'
    BY <1>0, ZenonT(30) DEF Spelled
  <2>9. i \notin InAborted(u)
    <3>1. Contents[b] \cap Contents[h] = {}
      BY <2>7, ZenonT(30) DEF Apart, ApartIn, Live
    <3> QED BY <2>5, <2>8, <3>1
  <2>10. AbortedOnce(aborted'[u]) /\ InAborted(u)' = InAborted(u) \cup {i}
    <3>1. PICK y \in Items \X Nat : y = <<i, r>> /\ y[1] = i
      <4>1. <<i, r>> \in Items \X Nat /\ <<i, r>>[1] = i
        OBVIOUS
      <4> QED BY <4>1, Zenon
    <3>2. AbortedOnce(aborted[u]) /\ aborted[u] \in Seq(Items \X Nat)
      BY DEF NoneTwice
    <3>3. y[1] \notin FirstsOf(aborted[u])
      BY <1>0, <2>9, <3>1
    <3>4. /\ AbortedOnce(Append(aborted[u], y))
          /\ FirstsOf(Append(aborted[u], y)) = FirstsOf(aborted[u]) \cup {y[1]}
      BY <3>2, <3>3, AbortedAppend, ZenonT(30)
    <3> QED BY <1>0, <2>4, <3>1, <3>4, ZenonT(30)
  <2>11. SameBut({h, b})
    BY <1>1, <2>4, <2>6, ZenonT(30) DEF SameBut
  <2>12. Moves(Contents, Contents', Places, h, b, {i})
    <3>1. \A p \in Places \ {h, b} : Contents'[p] = Contents[p]
      BY <2>11, ElsewhereSame
    <3> QED BY <2>5, <2>7, <2>8, <2>10, <3>1 DEF Moves, Live
  <2>13. NoneTwice'
    BY <1>0, <1>1, <2>4, <2>10, ZenonT(30) DEF NoneTwice
  <2> QED BY <2>7, <2>12, <2>13, MovingStep, ZenonT(30)
<1> QED BY <1>2, <1>3

\* Steps that move nothing.
LEMMA StillMoves ==
  ASSUME StateTypes, Apart, NoneTwice, UNCHANGED machine, SameBut({})
  PROVE  Apart' /\ NoneTwice' /\ UNCHANGED Unfinished
<1>0. UNCHANGED <<Sockets, SocketOf, Places, Live>>
  BY PlacesStay
<1>1. \A p \in Places : Contents'[p] = Contents[p]
  BY ElsewhereSame
<1>2. Apart'
  BY <1>0, <1>1 DEF Apart, ApartIn
<1>3. (\A x : x \in Unfinished <=> \E p \in Live : x \in Contents[p])'
  BY UnfinishedIs, PTL
<1>4. \A x : x \in Unfinished' <=> x \in Unfinished
  BY <1>0, <1>1, <1>3, UnfinishedIs DEF Live
<1>5. Unfinished' = Unfinished
  BY <1>4
<1>6. NoneTwice'
  BY <1>0 DEF NoneTwice, SameBut
<1> QED BY <1>2, <1>5, <1>6

Still(t) ==
  \/ ArriveAtBarrier(t) \/ LeaveBarrier(t) \/ LeaveWorklist(t) \/ LeaveAborts(t)
  \/ Acquire(t) \/ Commit(t) \/ Conflict(t) \/ CancelIteration(t)
  \/ Terminate(t) \/ Propagate(t) \/ CheckTermination(t)
  \/ SearchWorklist(t) /\ FindEmpty(t)

LEMMA StillSteps ==
  ASSUME StateTypes, NEW t \in Threads, Still(t)
  PROVE  SameBut({})
<1> USE DEF StateTypes, LoopTypes
<1>1. UNCHANGED <<cur, next, Q, pushBuffer, aborted, done>>
  BY DEF Still, ArriveAtBarrier, LeaveBarrier, LeaveWorklist, PopNothing, LeaveAborts,
         Acquire, Commit, Conflict, CancelIteration, Terminate, Propagate,
         CheckTermination, SearchWorklist, FindEmpty, wlVars, execVars
<1>2. ASSUME NEW u \in Threads PROVE UNCHANGED InHand(u)
  <2>0. /\ InHand(u) = IF pc[u] \in {"work", "cancel", "abort"} THEN {item[u][1]} ELSE {}
        /\ InHand(u)' = IF pc'[u] \in {"work", "cancel", "abort"} THEN {item'[u][1]} ELSE {}
    BY DEF InHand
  <2>1. CASE LeaveWorklist(t) \/ Acquire(t) \/ SearchWorklist(t)
    BY <2>0, <2>1, ZenonT(30) DEF LeaveWorklist, Acquire, SearchWorklist, execVars, iterVars
  <2>2. CASE ArriveAtBarrier(t) \/ LeaveBarrier(t) \/ LeaveAborts(t)
    BY <2>0, <2>2, ZenonT(30) DEF ArriveAtBarrier, LeaveBarrier, LeaveAborts, iterVars, Goto
  <2>3. CASE Commit(t)
    BY <2>0, <2>3, ZenonT(30) DEF Commit, Goto
  <2>4. CASE Conflict(t) \/ CancelIteration(t)
    BY <2>0, <2>4, ZenonT(30) DEF Conflict, CancelIteration, iterVars, Goto
  <2>5. CASE Terminate(t) \/ Propagate(t)
    <3>1. \E place \in {"check", "prop"} : pc' = [pc EXCEPT ![t] = place]
      BY <2>5 DEF Terminate, Propagate, Goto
    <3>2. pc[t] \in {"term", "prop"} /\ UNCHANGED item
      BY <2>5 DEF Terminate, Propagate, iterVars
    <3> QED BY <2>0, <3>1, <3>2
  <2>6. CASE CheckTermination(t)
    <3>1. \E place \in {"exit", "pop"} : pc' = [pc EXCEPT ![t] = place]
      BY <2>6, ZenonT(30) DEF CheckTermination, Goto
    <3>2. pc[t] = "check" /\ UNCHANGED item
      BY <2>6 DEF CheckTermination, iterVars
    <3> QED BY <2>0, <3>1, <3>2
  <2> QED BY <2>1, <2>2, <2>3, <2>4, <2>5, <2>6 DEF Still
<1> QED BY <1>1, <1>2 DEF SameBut

\* The iteration on an item finishes it and puts new ones in the push buffer.
LEMMA ReturnMoves ==
  ASSUME StateTypes, PlacesAgree, Apart, NoneTwice, Descend, NEW t \in Threads, Return(t),
         UNCHANGED machine
  PROVE  /\ Apart' /\ NoneTwice' /\ Descend'
         /\ \E i \in Items : /\ i \in Unfinished \ done
                             /\ Unfinished' = (Unfinished \ {i}) \cup Range(Pushes[i])
                             /\ done' = done \cup {i}
<1> USE DEF StateTypes, LoopTypes
<1> DEFINE h == <<"hand", t>>
           b == <<"push", t>>
           d == <<"done", 0>>
<1>0. Spelled /\ Spelled' /\ UNCHANGED <<Sockets, SocketOf, Places, Live>>
  BY PlacesStay
<1>1. PICK i \in Items : i = item[t][1]
  BY DEF Return, Working
<1>2. /\ pc[t] = "work" /\ pc' = [pc EXCEPT ![t] = "commit"]
      /\ pushBuffer' = [pushBuffer EXCEPT ![t] = Pushes[i]]
      /\ done' = done \cup {i}
      /\ UNCHANGED <<cur, next, Q, aborted, item>>
  BY <1>1 DEF Return, Goto, iterVars, wlVars
<1>3. /\ pushBuffer'[t] = Pushes[i] /\ pushBuffer[t] = <<>>
      /\ \A u \in Threads \ {t} : pushBuffer'[u] = pushBuffer[u]
  BY <1>2, ZenonT(30) DEF PlacesAgree
<1>4. InHand(t) = {i} /\ InHand(t)' = {}
  BY <1>1, <1>2 DEF InHand
<1>5. \A u \in Threads \ {t} : UNCHANGED InHand(u)
  BY <1>2 DEF InHand
<1>6. /\ h \in Live /\ b \in Live /\ d \notin Live
      /\ h \in Places /\ b \in Places /\ d \in Places
      /\ h # b /\ h # d /\ b # d /\ Places = Live \cup {d}
  BY DEF Live, Places
<1>7. /\ Contents[h] = {i} /\ Contents'[h] = {}
      /\ Contents[b] = {} /\ Contents'[b] = Range(Pushes[i])
      /\ Contents[d] = done /\ Contents'[d] = done \cup {i}
  BY <1>0, <1>2, <1>3, <1>4, SetOfEmpty, ZenonT(60) DEF Spelled
<1>8. \A p \in Places \ {h, b, d} : Contents'[p] = Contents[p]
  <2>1. SameBut({h, b, d})
    BY <1>2, <1>3, <1>5 DEF SameBut
  <2> QED BY <2>1, ElsewhereSame
<1>9. \A p \in Places \ {h} : i \notin Contents[p]
  <2>1. \A p \in Places \ {h} : Contents[p] \cap Contents[h] = {}
    BY <1>6, ZenonT(30) DEF Apart, ApartIn, Live
  <2> QED BY <1>7, <2>1
<1>10. ASSUME NEW p \in Places PROVE Contents[p] \cap Range(Pushes[i]) = {}
  <2> SUFFICES ASSUME NEW x \in Contents[p], x \in Range(Pushes[i]) PROVE FALSE
    OBVIOUS
  <2>1. CASE x \in Range(InitialItems)
    BY <2>1, ItemsAreDistinct
  <2>2. ASSUME NEW j \in done, x \in Range(Pushes[j]) PROVE FALSE
    <3>1. j \in Items \ {i}
      BY <1>6, <1>7, <1>9
    <3>2. Range(Pushes[i]) \cap Range(Pushes[j]) = {}
      BY <3>1, ItemsAreDistinct, ZenonT(30)
    <3> QED BY <2>2, <3>2
  <2> QED BY <2>1, <2>2 DEF Descend
<1> DEFINE f == [Contents EXCEPT ![h] = {}, ![d] = @ \cup {i}]
<1>11. f[h] = {} /\ f[d] = done \cup {i} /\ \A p \in Places \ {h, d} : f[p] = Contents[p]
  BY <1>6, <1>7, ZenonT(30) DEF Contents, Live
<1> HIDE DEF f
<1>12. Apart'
  <2>1. Moves(Contents, f, Places, h, d, {i})
    BY <1>6, <1>7, <1>11 DEF Moves, Live
  <2>2. ApartIn(f, Places)
    BY <2>1, MovingKeepsApart DEF Apart
  <2>3. \A p \in Places : f[p] \cap Range(Pushes[i]) = {}
    <3>1. i \notin Range(Pushes[i])
      BY <1>6, <1>7, <1>10, ZenonT(30) DEF Live
    <3>2. \A p \in Places \ {h, d} : f[p] \cap Range(Pushes[i]) = {}
      BY <1>10, <1>11, ZenonT(30)
    <3>3. f[d] \cap Range(Pushes[i]) = {}
      BY <1>6, <1>7, <1>10, <1>11, <3>1
    <3> QED BY <1>11, <3>2, <3>3, ZenonT(30)
  <2>4. Contents'[b] = f[b] \cup Range(Pushes[i]) /\ \A p \in Places \ {b} : Contents'[p] = f[p]
    BY <1>6, <1>7, <1>8, <1>11, ZenonT(30) DEF Live
  <2>5. ApartIn(Contents', Places)
    <3>1. Adds(f, Contents', Places, b, Range(Pushes[i]))
      BY <1>6, <2>3, <2>4 DEF Adds
    <3> QED BY <2>2, <3>1, AddingKeepsApart
  <2> QED BY <1>0, <2>5 DEF Apart
<1>13. NoneTwice'
  <2>1. Once(pushBuffer'[t])
    BY <1>3, ItemsAreDistinct DEF Once
  <2> QED BY <1>0, <1>2, <1>3, <2>1 DEF NoneTwice, WlTypes
<1>14. Descend'
  <2> SUFFICES ASSUME NEW p \in Places, NEW x \in Contents'[p]
               PROVE  x \in Range(InitialItems) \/ \E j \in done' : x \in Range(Pushes[j])
    BY <1>0 DEF Descend
  <2>1. CASE p = b
    BY <1>2, <1>7, <2>1
  <2>2. CASE p # b
    <3>1. \E q \in Places : x \in Contents[q]
      BY <1>6, <1>7, <1>8, <2>2, ZenonT(30) DEF Live
    <3> QED BY <1>2, <3>1 DEF Descend
  <2> QED BY <2>1, <2>2
<1>15. i \in Unfinished \ done
  BY <1>6, <1>7, <1>9, UnfinishedIs, ZenonT(30)
<1>16. Unfinished' = (Unfinished \ {i}) \cup Range(Pushes[i])
  <2>1. (\A x : x \in Unfinished <=> \E p \in Live : x \in Contents[p])'
    BY UnfinishedIs, PTL
  <2>2. ASSUME NEW x
        PROVE  (\E p \in Live : x \in Contents'[p]) <=>
                 ((\E p \in Live : x \in Contents[p]) /\ x # i) \/ x \in Range(Pushes[i])
    <3>1. ASSUME NEW p \in Live, x \in Contents'[p]
          PROVE  ((\E q \in Live : x \in Contents[q]) /\ x # i) \/ x \in Range(Pushes[i])
      <4>1. CASE p \in {h, b}
        BY <1>7, <3>1, <4>1, ZenonT(30)
      <4>2. CASE p \notin {h, b}
        BY <1>6, <1>8, <1>9, <3>1, <4>2, ZenonT(30)
      <4> QED BY <4>1, <4>2
    <3>2. ASSUME NEW p \in Live, x \in Contents[p], x # i PROVE \E q \in Live : x \in Contents'[q]
      BY <1>6, <1>7, <1>8, <3>2, ZenonT(30)
    <3>3. ASSUME x \in Range(Pushes[i]) PROVE \E q \in Live : x \in Contents'[q]
      BY <1>6, <1>7, <3>3
    <3> QED BY <3>1, <3>2, <3>3
  <2>3. \A x : x \in Unfinished' <=> (x \in Unfinished /\ x # i) \/ x \in Range(Pushes[i])
    BY <1>0, <2>1, <2>2, UnfinishedIs, ZenonT(30)
  <2> QED BY <2>3
<1> QED BY <1>2, <1>12, <1>13, <1>14, <1>15, <1>16

-----------------------------------------------------------------------------
ItemsInv == Apart /\ NoneTwice /\ Descend

LEMMA ItemsInitially == Init => ItemsInv /\ Unfinished = Range(InitialItems)
<1> SUFFICES ASSUME Init PROVE ItemsInv /\ Unfinished = Range(InitialItems)
  OBVIOUS
<1>1. ASSUME NEW t \in Threads
      PROVE  /\ Contents[<<"push", t>>] = Range(Block(t))
             /\ Contents[<<"cur", t>>] = {} /\ Contents[<<"next", t>>] = {}
             /\ Contents[<<"aborted", t>>] = {} /\ Contents[<<"hand", t>>] = {}
  <2>1. /\ cur[t] = <<>> /\ next[t] = <<>> /\ aborted[t] = <<>> /\ pc[t] = "init"
        /\ pushBuffer[t] = Block(t)
    BY DEF Init, WlInit
  <2>2. InAborted(t) = {} /\ InHand(t) = {}
    BY <2>1, SetOfEmpty DEF InAborted, FirstsOf, InHand
  <2> QED BY <2>1, <2>2, ContentsAre, SetOfEmpty DEF Spelled
<1>2. ASSUME NEW s \in Sockets PROVE Contents[<<"queue", s>>] = {}
  <2>1. Q[s] = <<>>
    BY DEF Init, WlInit
  <2>2. InQueue(s) = {}
    BY <2>1, SetOfEmpty DEF InQueue
  <2> QED BY <2>2, ContentsAre DEF Spelled
<1>3. Contents[<<"done", 0>>] = {}
  BY ContentsAre DEF Spelled, Init
<1>4. ASSUME NEW p \in Places, Contents[p] # {}
      PROVE  \E t \in Threads : p = <<"push", t>> /\ Contents[p] = Range(Block(t))
  BY <1>1, <1>2, <1>3, <1>4, PlacesAre, ZenonT(30)
<1>5. ASSUME NEW p \in Places, NEW q \in Places, p # q PROVE Contents[p] \cap Contents[q] = {}
  <2> SUFFICES ASSUME Contents[p] # {}, Contents[q] # {} PROVE Contents[p] \cap Contents[q] = {}
    OBVIOUS
  <2>1. PICK t \in Threads : p = <<"push", t>> /\ Contents[p] = Range(Block(t))
    BY <1>4
  <2>2. PICK u \in Threads : q = <<"push", u>> /\ Contents[q] = Range(Block(u))
    BY <1>4
  <2>3. Range(Block(t)) \cap Range(Block(u)) = {}
    BY <1>5, <2>1, <2>2, BlocksPartition
  <2> QED BY <2>1, <2>2, <2>3
<1>6. Apart
  BY <1>5 DEF Apart, ApartIn
<1>7. NoneTwice
  <2>1. Once(<<>>) /\ AbortedOnce(<<>>) /\ ChunksOnce(<<>>)
    BY DEF Once, IsInjective, AbortedOnce, ChunksOnce
  <2>2. \A t \in Threads : Once(pushBuffer[t])
    BY BlocksPartition DEF Once, Init
  <2> QED BY <2>1, <2>2 DEF Init, WlInit, NoneTwice
<1>8. ASSUME NEW p \in Places, NEW x \in Contents[p] PROVE x \in Range(InitialItems)
  BY <1>4, BlocksPartition
<1>9. Unfinished = Range(InitialItems)
  <2>1. ASSUME NEW x \in Unfinished PROVE x \in Range(InitialItems)
    BY <1>8, UnfinishedIs DEF Live
  <2>2. ASSUME NEW x \in Range(InitialItems) PROVE x \in Unfinished
    <3>1. PICK t \in Threads : x \in Range(Block(t))
      BY BlocksPartition
    <3>2. <<"push", t>> \in Live
      BY DEF Live, Places
    <3> QED BY <1>1, <3>1, <3>2, UnfinishedIs, ZenonT(30)
  <2> QED BY <2>1, <2>2
<1> QED BY <1>6, <1>7, <1>8, <1>9 DEF ItemsInv, Descend

\* All steps but Return keep the items that are to be done.
LEMMA OthersKeep ==
  ASSUME LoopInv, ItemsInv, NEW t \in Threads, Step(t), ~Return(t), UNCHANGED machine
  PROVE  ItemsInv' /\ UNCHANGED <<Unfinished, done>>
<1> USE DEF LoopInv, ItemsInv
<1>1. Apart' /\ NoneTwice' /\ UNCHANGED Unfinished
  <2>1. CASE Still(t)
    BY <2>1, StillSteps, StillMoves
  <2>2. CASE SearchWorklist(t) /\ ~FindEmpty(t)
    <3>1. PopChunk(t) \/ TakeNext(t)
      BY <2>2 DEF SearchWorklist, Search
    <3>2. UNCHANGED <<aborted, pc, item, pushBuffer, done>>
      BY <2>2 DEF SearchWorklist, execVars, iterVars
    <3> QED BY <3>1, <3>2, SearchMoves
  <2>3. CASE PushOne(t)
    BY <2>3, PushMoves
  <2>4. CASE PopItem(t)
    BY <2>4, PopMoves
  <2>5. CASE PopAborted(t) \/ PushAborted(t)
    BY <2>5, AbortedMoves
  <2> QED BY <2>1, <2>2, <2>3, <2>4, <2>5 DEF Step, Still
<1>2. UNCHANGED done
  BY ZenonT(30) DEF Step, PushOne, ArriveAtBarrier, LeaveBarrier, PopItem, SearchWorklist,
         LeaveWorklist, PopAborted, LeaveAborts, Acquire, Commit, Conflict,
         CancelIteration, PushAborted, Terminate, Propagate, CheckTermination, execVars
<1>3. Descend'
  <2>0. Spelled' /\ UNCHANGED <<Places, Live>> /\ Places = Live \cup {<<"done", 0>>}
    BY PlacesStay DEF Live, Places
  <2>1. (\A x : x \in Unfinished <=> \E p \in Live : x \in Contents[p])'
    BY UnfinishedIs, PTL
  <2> SUFFICES ASSUME NEW p \in Places, NEW x \in Contents'[p]
               PROVE  x \in Range(InitialItems) \/ \E i \in done' : x \in Range(Pushes[i])
    BY <2>0 DEF Descend
  <2>2. CASE p \in Live
    <3>1. x \in Unfinished
      BY <1>1, <2>0, <2>1, <2>2
    <3>2. PICK q \in Live : x \in Contents[q]
      BY <3>1, UnfinishedIs
    <3> QED BY <1>2, <2>0, <3>2 DEF Descend
  <2>3. CASE p = <<"done", 0>>
    <3>1. x \in Contents[<<"done", 0>>] /\ <<"done", 0>> \in Places
      BY <1>2, <2>0, <2>3, ContentsAre DEF Spelled
    <3> QED BY <1>2, <3>1 DEF Descend
  <2> QED BY <2>0, <2>2, <2>3
<1> QED BY <1>1, <1>2, <1>3

LEMMA ItemsStep == LoopInv /\ ItemsInv /\ [Next]_vars => ItemsInv'
<1> SUFFICES ASSUME LoopInv, ItemsInv, [Next]_vars PROVE ItemsInv'
  OBVIOUS
<1>1. ASSUME NEW t \in Threads, Go(t) PROVE ItemsInv'
  <2>1. CASE Return(t)
    BY <1>1, <2>1, ReturnMoves DEF Go, ItemsInv, LoopInv
  <2>2. CASE ~Return(t)
    BY <1>1, <2>2, OthersKeep DEF Go
  <2> QED BY <2>1, <2>2
<1>2. CASE UNCHANGED vars
  <2>1. UNCHANGED machine /\ SameBut({}) /\ UNCHANGED done
    BY <1>2 DEF vars, wlVars, execVars, iterVars, SameBut, InHand
  <2>2. Apart' /\ NoneTwice'
    BY <2>1, StillMoves DEF LoopInv, ItemsInv
  <2>3. \A p \in Places : Contents'[p] = Contents[p]
    BY <2>1, ElsewhereSame
  <2>4. UNCHANGED Places
    BY <2>1, PlacesStay
  <2>5. Descend'
    BY <2>1, <2>3, <2>4 DEF Descend, ItemsInv
  <2> QED BY <2>2, <2>5 DEF ItemsInv
<1> QED BY <1>1, <1>2 DEF Next

\* When the end has been announced, no place holds an item.
LEMMA NothingIsLeft == LoopInv /\ globalTerm => Unfinished = {}
<1> SUFFICES ASSUME LoopInv, globalTerm, NEW x \in Unfinished PROVE FALSE
  OBVIOUS
<1>1. PICK p \in Live : x \in Contents[p]
  BY UnfinishedIs
<1>2. /\ Spelled
      /\ \A t \in Threads : ~processIsBlack[t] /\ ~didWork[t] /\ Clean(t)
  BY ContentsAre DEF LoopInv, RingInv, Ended
<1>3. ASSUME NEW t \in Threads
      PROVE  p \notin {<<"cur", t>>, <<"next", t>>, <<"push", t>>, <<"aborted", t>>, <<"hand", t>>}
  <2>1. cur[t] = <<>> /\ next[t] = <<>> /\ aborted[t] = <<>>
    BY <1>2 DEF Clean, ChunksEmpty
  <2>2. pc[t] \notin Working \cup {"init"}
    BY <1>2 DEF LoopInv, PlacesAgree
  <2>3. pushBuffer[t] = <<>>
    BY <2>2 DEF LoopInv, PlacesAgree, Working
  <2>4. InHand(t) = {} /\ InAborted(t) = {}
    BY <2>1, <2>2, SetOfEmpty DEF InHand, Working, InAborted, FirstsOf
  <2> QED BY <1>1, <1>2, <2>1, <2>3, <2>4, SetOfEmpty, ZenonT(30) DEF Spelled
<1>4. ASSUME NEW s \in Sockets PROVE p # <<"queue", s>>
  <2>0. 0 \in Threads
    BY TopologyAssumption DEF Threads
  <2>1. Q[s] = <<>>
    BY <1>2, <2>0 DEF Clean, QueuesEmpty
  <2>2. InQueue(s) = {}
    BY <2>1, SetOfEmpty DEF InQueue
  <2> QED BY <1>1, <1>2, <2>2 DEF Spelled
<1>5. p \in Places /\ p # <<"done", 0>>
  BY DEF Live, Places
<1> QED BY <1>3, <1>4, <1>5, PlacesAre

\* Only thread 0's asking for the end changes what is announced.
LEMMA EndIsAnnounced ==
  ASSUME NEW t \in Threads, Step(t)
  PROVE  globalTerm' \/ UNCHANGED globalTerm
<1>1. CASE Terminate(t)
  BY <1>1 DEF Terminate, LocalTermination, HandleToken
<1>2. CASE Propagate(t)
  BY <1>2 DEF Propagate, PropColour, PropToken
<1> QED BY <1>1, <1>2, ZenonT(30)
     DEF Step, PushOne, ArriveAtBarrier, LeaveBarrier, PopItem, SearchWorklist,
         LeaveWorklist, PopAborted, LeaveAborts, Acquire, Return, Commit, Conflict,
         CancelIteration, PushAborted, CheckTermination, termVars

LEMMA StepsAreSetSteps ==
  LoopInv /\ LoopInv' /\ ItemsInv /\ [Next]_vars =>
    [Abstract!Finish \/ \E i \in Unfinished : Abstract!Process(i)]_<<Unfinished, done, globalTerm>>
<1> SUFFICES ASSUME LoopInv, LoopInv', ItemsInv, [Next]_vars
             PROVE  \/ Abstract!Finish
                    \/ \E i \in Unfinished : Abstract!Process(i)
                    \/ UNCHANGED <<Unfinished, done, globalTerm>>
  OBVIOUS
<1>1. ASSUME NEW t \in Threads, Go(t), Return(t)
      PROVE  \E i \in Unfinished : Abstract!Process(i)
  <2>1. PICK i \in Items : /\ i \in Unfinished \ done
                           /\ Unfinished' = (Unfinished \ {i}) \cup Range(Pushes[i])
                           /\ done' = done \cup {i}
    BY <1>1, ReturnMoves DEF Go, ItemsInv, LoopInv
  <2>2. UNCHANGED globalTerm
    BY <1>1 DEF Return, termVars
  <2>3. [j \in DOMAIN Pushes |-> Range(Pushes[j])][i] = Range(Pushes[i])
    BY ForEachAssumption
  <2> QED BY <2>1, <2>2, <2>3 DEF Abstract!Process
<1>2. ASSUME NEW t \in Threads, Go(t), ~Return(t)
      PROVE  Abstract!Finish \/ UNCHANGED <<Unfinished, done, globalTerm>>
  <2>1. UNCHANGED <<Unfinished, done>>
    BY <1>2, OthersKeep DEF Go
  <2>2. CASE UNCHANGED globalTerm
    BY <2>1, <2>2
  <2>3. CASE globalTerm'
    <3>1. (LoopInv /\ globalTerm => Unfinished = {})'
      BY NothingIsLeft, PTL
    <3>2. Unfinished = {}
      BY <2>1, <2>3, <3>1
    <3>3. globalTerm' = TRUE
      BY <2>3 DEF LoopInv, StateTypes, RingTypes
    <3> QED BY <2>1, <3>2, <3>3 DEF Abstract!Finish
  <2> QED BY <1>2, <2>2, <2>3, EndIsAnnounced DEF Go
<1>3. CASE UNCHANGED vars
  <2>1. UNCHANGED machine /\ SameBut({}) /\ UNCHANGED <<done, globalTerm>>
    BY <1>3 DEF vars, wlVars, execVars, iterVars, termVars, SameBut, InHand
  <2> QED BY <2>1, StillMoves DEF LoopInv, ItemsInv
<1> QED BY <1>1, <1>2, <1>3 DEF Next

\* For any number of threads and sockets, chunk size and conflicts, the loop
\* does what a set of items promises: each item is processed once, those its
\* iteration pushes are added, none is lost between chunks, queues, push
\* buffers and abort queues, and thread 0 announces the end (localTermination)
\* only when nothing is left.
THEOREM LoopImplementsUnorderedSet == Spec => ImplementsUnorderedSet
<1>1. Init => Abstract!SetInit
  BY ItemsInitially DEF Init, TermInit, Abstract!SetInit
<1>2. Init => ItemsInv
  BY ItemsInitially
<1>3. Spec => [](LoopInv /\ ItemsInv)
  BY <1>2, LoopInitially, LoopStep, ItemsStep, PTL DEF Spec
<1> QED BY <1>1, <1>3, StepsAreSetSteps, PTL
     DEF Spec, ImplementsUnorderedSet, Abstract!SetSpec
=============================================================================
