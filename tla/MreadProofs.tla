---------------------------- MODULE MreadProofs -----------------------------
(***************************************************************************)
(* Proofs about MreadSockets: the map of descriptors, the slots with their *)
(* free list, and the senders that outlive their connections, for tables   *)
(* of any size with room for more descriptors than there are slots, and    *)
(* any clients.                                                            *)
(*                                                                         *)
(* Walks through the map and the free list are functions on Nat that are   *)
(* defined by recursion.  What holds along them is shown with AllNumbers,  *)
(* induction stated for a set, which follows from the order of Nat being   *)
(* well-founded.                                                           *)
(***************************************************************************)
EXTENDS MreadSockets, FiniteSetTheorems, WellFoundedInduction, TLAPS

-----------------------------------------------------------------------------
(* Numbers.                                                                *)

LEMMA LeastOf ==
    ASSUME NEW T \in SUBSET Nat, T # {}
    PROVE  Min(T) \in T /\ \A y \in T : Min(T) <= y
<1>1. PICK x \in T : \A y \in T : ~(<<y, x>> \in OpToRel(<, Nat))
  BY NatLessThanWellFounded, WFMin
<1>2. \A y \in T : ~(y < x)
  BY <1>1 DEF OpToRel
<1>3. \A y \in T : x <= y
  BY <1>2
<1>4. QED
  BY <1>3 DEF Min

\* Induction, for a set.
LEMMA AllNumbers ==
    ASSUME NEW T, 0 \in T, \A n \in Nat : n \in T => n + 1 \in T
    PROVE  \A n \in Nat : n \in T
<1>1. SUFFICES ASSUME Nat \ T # {} PROVE FALSE
  OBVIOUS
<1>2. PICK x : x = Min(Nat \ T) /\ x \in Nat \ T /\ \A y \in Nat \ T : x <= y
  BY <1>1, LeastOf
<1>3. x - 1 \in Nat /\ (x - 1) + 1 = x
  BY <1>2
<1>4. x - 1 \in T
  BY <1>2, <1>3
<1>5. QED
  BY <1>2, <1>3, <1>4

\* What f makes of x, over and over.
Iterates(f, x, h, N) == h[0] = x /\ \A i \in Nat : i + 1 \in N => h[i + 1] = f[h[i]]

LEMMA Iteration ==
    ASSUME NEW X, NEW f \in [X -> X], NEW x \in X
    PROVE  \E h \in [Nat -> X] : Iterates(f, x, h, Nat)
<1> DEFINE T == {n \in Nat : \E h \in [0 .. n -> X] : Iterates(f, x, h, 0 .. n)}
<1>1. 0 \in T
  <2>1. [i \in 0 .. 0 |-> x] \in [0 .. 0 -> X] /\ Iterates(f, x, [i \in 0 .. 0 |-> x], 0 .. 0)
    BY DEF Iterates
  <2>2. QED
    BY <2>1
<1>2. ASSUME NEW n \in Nat, n \in T PROVE n + 1 \in T
  <2>1. PICK h \in [0 .. n -> X] : Iterates(f, x, h, 0 .. n)
    BY <1>2
  <2> DEFINE g == [i \in 0 .. n + 1 |-> IF i <= n THEN h[i] ELSE f[h[n]]]
  <2>2. g \in [0 .. n + 1 -> X]
    OBVIOUS
  <2>3. Iterates(f, x, g, 0 .. n + 1)
    <3>1. g[0] = x
      BY <2>1 DEF Iterates
    <3>2. ASSUME NEW i \in Nat, i + 1 \in 0 .. n + 1 PROVE g[i + 1] = f[g[i]]
      <4>1. CASE i + 1 <= n
        <5>1. h[i + 1] = f[h[i]]
          BY <2>1, <4>1 DEF Iterates
        <5>2. QED
          BY <4>1, <5>1
      <4>2. CASE i = n
        BY <4>2
      <4>3. QED
        BY <3>2, <4>1, <4>2
    <3>3. QED
      BY <3>1, <3>2 DEF Iterates
  <2>4. QED
    BY <2>2, <2>3
<1>3. \A n \in Nat : n \in T
  <2> HIDE DEF T
  <2>1. QED
    BY <1>1, <1>2, AllNumbers
<1>4. ASSUME NEW n \in Nat, NEW h \in [0 .. n -> X], Iterates(f, x, h, 0 .. n),
             NEW m \in Nat, NEW g \in [0 .. m -> X], Iterates(f, x, g, 0 .. m)
      PROVE  \A i \in Nat : i <= n /\ i <= m => h[i] = g[i]
  <2> DEFINE S == {i \in Nat : i <= n /\ i <= m => h[i] = g[i]}
  <2>1. 0 \in S
    BY <1>4 DEF Iterates
  <2>2. ASSUME NEW i \in Nat, i \in S PROVE i + 1 \in S
    <3>1. SUFFICES ASSUME i + 1 <= n, i + 1 <= m PROVE h[i + 1] = g[i + 1]
      OBVIOUS
    <3>2. h[i + 1] = f[h[i]] /\ g[i + 1] = f[g[i]]
      BY <1>4, <3>1 DEF Iterates
    <3>3. h[i] = g[i]
      BY <2>2, <3>1
    <3>4. QED
      BY <3>2, <3>3
  <2>3. \A i \in Nat : i \in S
    <3> HIDE DEF S
    <3>1. QED
      BY <2>1, <2>2, AllNumbers
  <2>4. QED
    BY <2>3
<1> DEFINE F(n) == CHOOSE h \in [0 .. n -> X] : Iterates(f, x, h, 0 .. n)
<1>5. \A n \in Nat : F(n) \in [0 .. n -> X] /\ Iterates(f, x, F(n), 0 .. n)
  BY <1>3
<1> DEFINE all == [n \in Nat |-> F(n)[n]]
<1> HIDE DEF F, T
<1>6. all \in [Nat -> X]
  BY <1>5
<1>7. all[0] = x
  BY <1>5 DEF Iterates
<1>8. ASSUME NEW i \in Nat PROVE all[i + 1] = f[all[i]]
  <2>1. F(i + 1)[i + 1] = f[F(i + 1)[i]]
    BY <1>5 DEF Iterates
  <2>2. F(i + 1)[i] = F(i)[i]
    BY <1>4, <1>5
  <2>3. QED
    BY <2>1, <2>2
<1>9. QED
  BY <1>6, <1>7, <1>8 DEF Iterates

-----------------------------------------------------------------------------
(* The map: where a walk goes.                                             *)

Ways == Nodes \cup {NoNode}
Tables == [Nodes -> [fd : Fds \cup {NoFd}, id : Sockets, next : Ways]]

LEMMA SizesAre ==
    /\ TableSize \in Nat \ {0} /\ MaxConnection \in Nat \ {0} /\ MaxConnection < TableSize
    /\ 0 \in Sockets /\ 0 \in Nodes /\ Sockets \subseteq Nat /\ Nodes \subseteq Nat
    /\ NoNode \notin Nodes /\ NoFd \notin Fds /\ Null \notin Sockets /\ Wild \notin Sockets
    /\ Null \notin Fds /\ Wild \notin Fds /\ Fds \subseteq Nat
BY SocketsAssumption DEF Sockets, Nodes, NoNode, NoFd, Null, Wild

LEMMA HashIs == \A fd \in Fds : Hash(fd) \in Nodes
BY SocketsAssumption DEF Hash, Nodes

Goes(map, y) == IF y = NoNode THEN NoNode ELSE map[y].next

WalkIs(map, fd, h) == h = [i \in Nat |-> IF i = 0 THEN Hash(fd) ELSE Goes(map, h[i - 1])]

LEMMA ReachIs ==
    ASSUME NEW map, NEW fd, NEW h, WalkIs(map, fd, h)
    PROVE  WalkIs(map, fd, [k \in Nat |-> Reach(map, fd, k)])
<1> DEFINE a == CHOOSE x : x = [i \in Nat |-> IF i = 0 THEN Hash(fd)
                                              ELSE IF x[i - 1] = NoNode THEN NoNode ELSE map[x[i - 1]].next]
<1>1. a = [i \in Nat |-> IF i = 0 THEN Hash(fd) ELSE IF a[i - 1] = NoNode THEN NoNode ELSE map[a[i - 1]].next]
  BY DEF WalkIs, Goes
<1>2. ASSUME NEW k \in Nat PROVE Reach(map, fd, k) = a[k]
  BY DEF Reach
<1>3. [k \in Nat |-> Reach(map, fd, k)] = a
  BY <1>1, <1>2
<1>4. QED
  BY <1>1, <1>3 DEF WalkIs, Goes

LEMMA ReachSteps ==
    ASSUME NEW map \in Tables, NEW fd \in Fds
    PROVE  /\ Reach(map, fd, 0) = Hash(fd)
           /\ \A k \in Nat : Reach(map, fd, k) \in Ways /\ Reach(map, fd, k + 1) = Goes(map, Reach(map, fd, k))
<1> DEFINE g == [y \in Ways |-> Goes(map, y)]
<1>1. g \in [Ways -> Ways]
  BY DEF Goes, Tables, Ways
<1>2. Hash(fd) \in Ways
  BY HashIs DEF Ways
<1>3. PICK h \in [Nat -> Ways] : Iterates(g, Hash(fd), h, Nat)
  <2> HIDE DEF g
  <2>1. QED
    BY <1>1, <1>2, Iteration
<1>4. WalkIs(map, fd, h)
  <2>1. ASSUME NEW i \in Nat PROVE h[i] = IF i = 0 THEN Hash(fd) ELSE Goes(map, h[i - 1])
    <3>1. CASE i = 0
      BY <1>3, <3>1 DEF Iterates
    <3>2. CASE i # 0
      <4>1. i - 1 \in Nat /\ (i - 1) + 1 = i
        BY <3>2
      <4>2. h[i] = g[h[i - 1]]
        BY <1>3, <4>1 DEF Iterates
      <4>3. h[i - 1] \in Ways
        BY <4>1
      <4>4. QED
        BY <3>2, <4>2, <4>3
    <3>3. QED
      BY <3>1, <3>2
  <2>2. QED
    BY <2>1 DEF WalkIs
<1>5. PICK a : a = [k \in Nat |-> Reach(map, fd, k)] /\ WalkIs(map, fd, a)
  BY <1>4, ReachIs
<1>6. a[0] = Hash(fd) /\ \A k \in Nat : a[k + 1] = Goes(map, a[k])
  BY <1>5 DEF WalkIs
<1>7. \A k \in Nat : a[k] \in Ways
  <2> DEFINE T == {k \in Nat : a[k] \in Ways}
  <2>1. 0 \in T
    BY <1>2, <1>6
  <2>2. \A k \in Nat : k \in T => k + 1 \in T
    BY <1>6 DEF Goes, Tables, Ways
  <2>3. \A k \in Nat : k \in T
    <3> HIDE DEF T
    <3>1. QED
      BY <2>1, <2>2, AllNumbers
  <2>4. QED
    BY <2>3
<1>8. QED
  BY <1>5, <1>6, <1>7

\* A walk that has ended goes nowhere.
LEMMA ReachEnds ==
    ASSUME NEW map \in Tables, NEW fd \in Fds, NEW k \in Nat, NEW m \in Nat, k <= m,
           Reach(map, fd, k) = NoNode
    PROVE  Reach(map, fd, m) = NoNode
<1> DEFINE T == {i \in Nat : Reach(map, fd, k + i) = NoNode}
<1>1. 0 \in T
  OBVIOUS
<1>2. ASSUME NEW i \in Nat, i \in T PROVE i + 1 \in T
  <2>1. k + i \in Nat /\ k + (i + 1) = (k + i) + 1
    OBVIOUS
  <2>2. Reach(map, fd, k + (i + 1)) = Goes(map, Reach(map, fd, k + i))
    BY <2>1, ReachSteps
  <2>3. QED
    BY <1>2, <2>2 DEF Goes
<1>3. \A i \in Nat : i \in T
  <2> HIDE DEF T
  <2>1. QED
    BY <1>1, <1>2, AllNumbers
<1>4. m - k \in Nat /\ k + (m - k) = m
  OBVIOUS
<1>5. QED
  BY <1>3, <1>4

\* A map that has grown at the ends of its lists.
Longer(map, new) == \A n \in Nodes : map[n].next # NoNode => new[n].next = map[n].next

LEMMA ReachGrows ==
    ASSUME NEW map \in Tables, NEW new \in Tables, Longer(map, new), NEW fd \in Fds
    PROVE  \A k \in Nat : Reach(map, fd, k) # NoNode => Reach(new, fd, k) = Reach(map, fd, k)
<1> DEFINE T == {k \in Nat : Reach(map, fd, k) # NoNode => Reach(new, fd, k) = Reach(map, fd, k)}
<1>1. 0 \in T
  BY ReachSteps
<1>2. ASSUME NEW k \in Nat, k \in T PROVE k + 1 \in T
  <2>1. SUFFICES ASSUME Reach(map, fd, k + 1) # NoNode PROVE Reach(new, fd, k + 1) = Reach(map, fd, k + 1)
    OBVIOUS
  <2>2. /\ Reach(map, fd, k) \in Ways
        /\ Reach(map, fd, k + 1) = Goes(map, Reach(map, fd, k))
        /\ Reach(new, fd, k + 1) = Goes(new, Reach(new, fd, k))
    BY ReachSteps
  <2>3. Reach(map, fd, k) # NoNode
    BY <2>1, <2>2 DEF Goes
  <2>4. Reach(new, fd, k) = Reach(map, fd, k)
    BY <1>2, <2>3
  <2>5. QED
    BY <2>1, <2>2, <2>3, <2>4 DEF Goes, Longer, Ways
<1>3. \A k \in Nat : k \in T
  <2> HIDE DEF T
  <2>1. QED
    BY <1>1, <1>2, AllNumbers
<1>4. QED
  BY <1>3

LEMMA WalkIn ==
    ASSUME NEW map \in Tables, NEW fd \in Fds
    PROVE  /\ Walk(map, fd) \subseteq Nodes
           /\ \A n \in Walk(map, fd) : \E k \in 0 .. TableSize : Reach(map, fd, k) = n
<1>1. ASSUME NEW k \in 0 .. TableSize PROVE Reach(map, fd, k) \in Ways
  <2>1. k \in Nat
    BY SizesAre
  <2>2. QED
    BY <2>1, ReachSteps
<1>2. QED
  BY <1>1 DEF Walk, Ways

LEMMA WalkGrows ==
    ASSUME NEW map \in Tables, NEW new \in Tables, Longer(map, new), NEW fd \in Fds
    PROVE  Walk(map, fd) \subseteq Walk(new, fd)
<1>1. SUFFICES ASSUME NEW k \in 0 .. TableSize, Reach(map, fd, k) # NoNode PROVE Reach(map, fd, k) \in Walk(new, fd)
  BY DEF Walk
<1>2. k \in Nat
  BY SizesAre
<1>3. Reach(new, fd, k) = Reach(map, fd, k)
  BY <1>1, <1>2, ReachGrows
<1>4. QED
  BY <1>1, <1>3 DEF Walk

-----------------------------------------------------------------------------
(* The map: search, insert and erase.                                      *)

\* Every descriptor is where its walk comes by, and in one place.
Reachable(map) == \A n \in Nodes : map[n].fd # NoFd => n \in Walk(map, map[n].fd)
OnceEach(map) == \A n, m \in Nodes : map[n].fd # NoFd /\ map[n].fd = map[m].fd => n = m

FirstHolder(map, fd) == Reach(map, fd, Min({i \in 0 .. TableSize : Reach(map, fd, i) \in Holding(map, fd)}))

LEMMA HolderIs ==
    ASSUME NEW map \in Tables, NEW fd \in Fds, Holding(map, fd) # {}
    PROVE  FirstHolder(map, fd) \in Nodes /\ map[FirstHolder(map, fd)].fd = fd
<1> DEFINE T == {i \in 0 .. TableSize : Reach(map, fd, i) \in Holding(map, fd)}
<1>1. T # {} /\ T \in SUBSET Nat
  <2>1. PICK n \in Walk(map, fd) : n \in Holding(map, fd)
    BY DEF Holding
  <2>2. PICK k \in 0 .. TableSize : Reach(map, fd, k) = n
    BY WalkIn
  <2>3. QED
    BY <2>1, <2>2
<1>2. Min(T) \in T
  <2> HIDE DEF T
  <2>1. QED
    BY <1>1, LeastOf
<1>3. FirstHolder(map, fd) \in Holding(map, fd)
  BY <1>2 DEF FirstHolder
<1>4. QED
  BY <1>3, WalkIn DEF Holding

\* What a search finds is right, or nothing.
LEMMA SearchIs ==
    ASSUME NEW map \in Tables, NEW fd \in Fds, Search(map, fd) # Null
    PROVE  \E n \in Nodes : map[n].fd = fd /\ Search(map, fd) = map[n].id
<1>1. Holding(map, fd) # {} /\ Search(map, fd) = map[FirstHolder(map, fd)].id
  BY DEF Search, FirstHolder, Null
<1>2. QED
  BY <1>1, HolderIs

LEMMA HolderFound ==
    ASSUME NEW map \in Tables, Reachable(map), OnceEach(map), NEW n \in Nodes, map[n].fd \in Fds
    PROVE  Holding(map, map[n].fd) # {} /\ FirstHolder(map, map[n].fd) = n
<1>1. map[n].fd # NoFd
  BY SizesAre
<1>2. n \in Holding(map, map[n].fd)
  BY <1>1 DEF Reachable, Holding
<1>3. FirstHolder(map, map[n].fd) \in Nodes /\ map[FirstHolder(map, map[n].fd)].fd = map[n].fd
  BY <1>2, HolderIs
<1>4. QED
  BY <1>1, <1>2, <1>3 DEF OnceEach

\* map_search finds what is there.
LEMMA SearchFinds ==
    ASSUME NEW map \in Tables, Reachable(map), OnceEach(map), NEW n \in Nodes, map[n].fd \in Fds
    PROVE  Search(map, map[n].fd) = map[n].id
BY HolderFound DEF Search, FirstHolder

LEMMA EraseIs ==
    ASSUME NEW map \in Tables, Reachable(map), OnceEach(map), NEW n \in Nodes, map[n].fd \in Fds
    PROVE  /\ Erase(map, map[n].fd) \in Tables
           /\ Erase(map, map[n].fd)[n].fd = NoFd
           /\ \A m \in Nodes : /\ Erase(map, map[n].fd)[m].next = map[m].next
                               /\ m # n => Erase(map, map[n].fd)[m] = map[m]
           /\ Reachable(Erase(map, map[n].fd)) /\ OnceEach(Erase(map, map[n].fd))
<1> DEFINE new == [map EXCEPT ![n].fd = NoFd]
<1>1. Erase(map, map[n].fd) = new
  BY HolderFound DEF Erase, FirstHolder
<1>2. /\ new \in Tables /\ new[n].fd = NoFd
      /\ \A m \in Nodes : new[m].next = map[m].next /\ (m # n => new[m] = map[m])
  <2>1. [map[n] EXCEPT !.fd = NoFd] \in [fd : Fds \cup {NoFd}, id : Sockets, next : Ways]
    BY DEF Tables
  <2>2. new = [map EXCEPT ![n] = [map[n] EXCEPT !.fd = NoFd]]
    BY DEF Tables
  <2>3. QED
    BY <2>1, <2>2 DEF Tables
<1> HIDE DEF new
<1>3. Reachable(new)
  <2>1. SUFFICES ASSUME NEW m \in Nodes, new[m].fd # NoFd PROVE m \in Walk(new, new[m].fd)
    BY DEF Reachable
  <2>2. new[m].fd = map[m].fd /\ map[m].fd \in Fds
    BY <1>2, <2>1 DEF Tables
  <2>3. Longer(map, new)
    BY <1>2 DEF Longer
  <2>4. Walk(map, map[m].fd) \subseteq Walk(new, map[m].fd)
    BY <1>2, <2>2, <2>3, WalkGrows
  <2>5. m \in Walk(map, map[m].fd)
    BY <2>1, <2>2 DEF Reachable
  <2>6. QED
    BY <2>2, <2>4, <2>5
<1>4. OnceEach(new)
  BY <1>2 DEF OnceEach
<1>5. QED
  BY <1>1, <1>2, <1>3, <1>4

\* A walk that does not go round has a last node, with a step of the table left.
LEMMA LastIs ==
    ASSUME NEW map \in Tables, NEW fd \in Fds, ~Circles(map, fd)
    PROVE  /\ LastOnWalk(map, fd) \in Walk(map, fd) /\ LastOnWalk(map, fd) \in Nodes
           /\ map[LastOnWalk(map, fd)].next = NoNode
           /\ \E k \in 0 .. TableSize - 1 : Reach(map, fd, k) = LastOnWalk(map, fd)
<1> DEFINE T == {k \in Nat : Reach(map, fd, k) = NoNode}
<1>1. TableSize \in T
  BY SizesAre DEF Circles
<1>2. PICK k \in Nat : Reach(map, fd, k) = NoNode /\ \A y \in T : k <= y
  <2>1. T \in SUBSET Nat /\ T # {}
    BY <1>1
  <2>2. Min(T) \in T /\ \A y \in T : Min(T) <= y
    <3> HIDE DEF T
    <3>1. QED
      BY <2>1, LeastOf
  <2>3. QED
    BY <2>2
<1>3. k # 0
  BY <1>2, ReachSteps, HashIs, SizesAre
<1>4. PICK j \in Nat : j + 1 = k /\ j \in 0 .. TableSize
  <2>1. k - 1 \in Nat /\ (k - 1) + 1 = k /\ k <= TableSize
    BY <1>1, <1>2, <1>3
  <2>2. k - 1 \in 0 .. TableSize
    BY <2>1, SizesAre
  <2>3. QED
    BY <2>1, <2>2
<1>5. Reach(map, fd, j) # NoNode
  BY <1>2, <1>4
<1>6. Reach(map, fd, j) \in Walk(map, fd) /\ map[Reach(map, fd, j)].next = NoNode
  <2>1. Goes(map, Reach(map, fd, j)) = NoNode
    BY <1>2, <1>4, ReachSteps
  <2>2. QED
    BY <1>4, <1>5, <2>1 DEF Goes, Walk
<1>7. LastOnWalk(map, fd) \in Walk(map, fd) /\ map[LastOnWalk(map, fd)].next = NoNode
  BY <1>6 DEF LastOnWalk
<1>8. PICK i \in 0 .. TableSize : Reach(map, fd, i) = LastOnWalk(map, fd)
  BY <1>7, WalkIn
<1>9. i # TableSize
  BY <1>7, <1>8, WalkIn, SizesAre DEF Circles
<1>10. i \in 0 .. TableSize - 1
  BY <1>8, <1>9, SizesAre
<1>11. QED
  BY <1>7, <1>8, <1>10, WalkIn

\* What map_insert has made of the map: one free node was taken, and at most the
\* end of one list goes on.
Inserted(map, new, n, fd, id) ==
    /\ new \in Tables
    /\ map[n].fd = NoFd /\ new[n].fd = fd /\ new[n].id = id
    /\ \A m \in Nodes : m # n => new[m].fd = map[m].fd /\ new[m].id = map[m].id
    /\ Longer(map, new) /\ n \in Walk(new, fd)
    /\ FreeOnWalk(map, fd) # {} => \A m \in Nodes : new[m].next = map[m].next

LEMMA InsertOnWalk ==
    ASSUME NEW map \in Tables, NEW fd \in Fds, NEW id \in Sockets, FreeOnWalk(map, fd) # {}
    PROVE  \E n \in Nodes : Inserted(map, Insert(map, fd, id), n, fd, id)
<1> DEFINE n == Reach(map, fd, Min(FreeOnWalk(map, fd)))
           new == [map EXCEPT ![n] = [@ EXCEPT !.fd = fd, !.id = id]]
<1>1. Insert(map, fd, id) = new
  BY DEF Insert
<1>2. Min(FreeOnWalk(map, fd)) \in FreeOnWalk(map, fd)
  <2>1. FreeOnWalk(map, fd) \in SUBSET Nat
    BY SizesAre DEF FreeOnWalk
  <2>2. QED
    BY <2>1, LeastOf
<1>3. n \in Walk(map, fd) /\ n \in Nodes /\ map[n].fd = NoFd
  <2>1. PICK k \in 0 .. TableSize : k = Min(FreeOnWalk(map, fd)) /\ Reach(map, fd, k) # NoNode
                                   /\ map[Reach(map, fd, k)].fd = NoFd
    BY <1>2 DEF FreeOnWalk
  <2>2. Reach(map, fd, k) \in Walk(map, fd)
    BY <2>1 DEF Walk
  <2>3. QED
    BY <2>1, <2>2, WalkIn
<1> HIDE DEF n
<1>4. /\ new \in Tables /\ new[n].fd = fd /\ new[n].id = id /\ new[n].next = map[n].next
      /\ \A m \in Nodes : m # n => new[m] = map[m]
  <2>1. [map[n] EXCEPT !.fd = fd, !.id = id] \in [fd : Fds \cup {NoFd}, id : Sockets, next : Ways]
    BY <1>3 DEF Tables
  <2>2. new = [map EXCEPT ![n] = [map[n] EXCEPT !.fd = fd, !.id = id]]
    BY <1>3 DEF Tables
  <2>3. QED
    BY <1>3, <2>1, <2>2 DEF Tables
<1> HIDE DEF new
<1>5. Longer(map, new)
  BY <1>4 DEF Longer
<1>6. n \in Walk(new, fd)
  BY <1>3, <1>4, <1>5, WalkGrows
<1>7. QED
  BY <1>1, <1>3, <1>4, <1>5, <1>6 DEF Inserted

LEMMA InsertBehind ==
    ASSUME NEW map \in Tables, NEW fd \in Fds, NEW id \in Sockets,
           FreeOnWalk(map, fd) = {}, ~Circles(map, fd), FreeNodes(map) # {}
    PROVE  \E n \in Nodes : Inserted(map, Insert(map, fd, id), n, fd, id)
<1> DEFINE n == Min(FreeNodes(map))
           last == LastOnWalk(map, fd)
           new == [map EXCEPT ![n] = [@ EXCEPT !.fd = fd, !.id = id], ![last].next = n]
<1>1. Insert(map, fd, id) = new
  BY DEF Insert
<1>2. n \in Nodes /\ map[n].fd = NoFd
  <2>1. FreeNodes(map) \in SUBSET Nat
    BY SizesAre DEF FreeNodes
  <2>2. n \in FreeNodes(map)
    BY <2>1, LeastOf
  <2>3. QED
    BY <2>2 DEF FreeNodes
<1>3. PICK k \in 0 .. TableSize - 1 : Reach(map, fd, k) = last
  BY LastIs
<1>4. last \in Nodes /\ map[last].next = NoNode
  BY LastIs
<1>5. map[last].fd # NoFd
  <2>1. k \in 0 .. TableSize /\ Reach(map, fd, k) # NoNode
    BY <1>3, <1>4, SizesAre
  <2>2. QED
    BY <1>3, <2>1 DEF FreeOnWalk
<1>6. n # last
  BY <1>2, <1>5
<1> HIDE DEF n, last
<1>7. /\ new \in Tables /\ new[n].fd = fd /\ new[n].id = id /\ new[n].next = map[n].next
      /\ new[last].next = n
      /\ \A m \in Nodes : m # n => new[m].fd = map[m].fd /\ new[m].id = map[m].id
      /\ \A m \in Nodes : m # last => new[m].next = map[m].next
  <2> DEFINE taken == [map[n] EXCEPT !.fd = fd, !.id = id]
             linked == [map[last] EXCEPT !.next = n]
  <2>1. /\ taken \in [fd : Fds \cup {NoFd}, id : Sockets, next : Ways]
        /\ taken.fd = fd /\ taken.id = id /\ taken.next = map[n].next
    BY <1>2 DEF Tables
  <2>2. /\ linked \in [fd : Fds \cup {NoFd}, id : Sockets, next : Ways]
        /\ linked.next = n /\ linked.fd = map[last].fd /\ linked.id = map[last].id
    BY <1>2, <1>4 DEF Tables, Ways
  <2>3. new = [map EXCEPT ![n] = taken, ![last] = linked]
    BY <1>2, <1>4, <1>6 DEF Tables
  <2> HIDE DEF taken, linked, new
  <2>4. new[n] = taken /\ new[last] = linked /\ \A m \in Nodes : m # n /\ m # last => new[m] = map[m]
    BY <1>2, <1>4, <1>6, <2>3 DEF Tables
  <2>5. new \in Tables
    BY <1>2, <1>4, <2>1, <2>2, <2>3 DEF Tables
  <2>6. QED
    BY <2>1, <2>2, <2>4, <2>5
<1> HIDE DEF new
<1>8. Longer(map, new)
  BY <1>4, <1>7 DEF Longer
<1>9. n \in Walk(new, fd)
  <2>1. k \in Nat /\ k + 1 \in 0 .. TableSize
    BY <1>3, SizesAre
  <2>2. Reach(new, fd, k) = last
    BY <1>3, <1>4, <1>7, <1>8, <2>1, ReachGrows, SizesAre
  <2>3. Reach(new, fd, k + 1) = n
    BY <1>4, <1>7, <2>1, <2>2, ReachSteps, SizesAre DEF Goes
  <2>4. n # NoNode
    BY <1>2, SizesAre
  <2>5. QED
    BY <2>1, <2>3, <2>4 DEF Walk
<1>10. QED
  BY <1>1, <1>2, <1>7, <1>8, <1>9 DEF Inserted

-----------------------------------------------------------------------------
(* The invariant.                                                          *)

Slots == [fd : Fds \cup Sockets \cup {Null, Wild}, status : {"invalid", "open", "closed"}, flag : BOOLEAN]
ConnStates == {"new", "waiting", "up", "ended", "reset", "gone"}
Alive == {"up", "ended", "reset"}

MsTypes ==
    /\ sock \in [Sockets -> Slots] /\ freeSock \in Sockets \cup {Null, Wild}
    /\ table \in Tables /\ lost \in SUBSET Sockets /\ msClosed \in Nat
    /\ owner \in [Fds -> Conns \cup {NoConn}] /\ conn \in [Conns -> ConnStates]
    /\ queue \in Seq(Fds \cup {Listen})
    /\ sender \in [Conns -> {"none", "start", "look", "write"}]
    /\ place \in [Conns -> Sockets \cup {Null}]
    /\ at = "pull" => msActive \in Sockets /\ sock[msActive].status = "open"

\* The map holds the slots in service by their descriptors, and nothing else.
MapRight ==
    /\ Reachable(table) /\ OnceEach(table)
    /\ \A n \in Nodes : table[n].fd # NoFd =>
          table[n].id \in InService /\ sock[table[n].id].fd = table[n].fd
    /\ \A s \in InService : sock[s].fd \in Fds /\ \E n \in Nodes : table[n].fd = sock[s].fd /\ table[n].id = s
    /\ ~chained => \A n \in Nodes : table[n].next = NoNode

\* The slots that can be taken, in the order of the free list.
FreeList(q) ==
    /\ \A i, j \in 1 .. Len(q) : q[i] = q[j] => i = j
    /\ {q[i] : i \in 1 .. Len(q)} = {s \in Sockets : sock[s].status = "invalid"} \ lost
    /\ freeSock \in IF q = <<>> THEN {Null, Wild} ELSE {q[1]}
    /\ \A i \in 1 .. Len(q) : sock[q[i]].fd \in IF i = Len(q) THEN {Null, Wild} ELSE {q[i + 1]}

SlotsRight ==
    /\ \E q \in Seq(Sockets) : FreeList(q)
    /\ msClosed = Cardinality({s \in Sockets : sock[s].status = "closed"})
    /\ freeSock \notin Sockets \/ (\E s \in Sockets : sock[s].fd = Wild) => full
    /\ \A s \in lost : sock[s].status = "invalid"

OwnersRight ==
    /\ \A s \in InService : (sock[s].status = "open") = (owner[sock[s].fd] # NoConn)
    /\ \A f \in Fds : owner[f] # NoConn => \E s \in Sockets : sock[s].status = "open" /\ sock[s].fd = f
    /\ \A f, g \in Fds : owner[f] # NoConn /\ owner[f] = owner[g] => f = g
    /\ \A c \in Conns : conn[c] \in Alive <=> \E f \in Fds : owner[f] = c

\* A sender has the slot of its client, or will find at its next look that it must
\* end, or is excused.
Served(c) == sock[place[c]].status = "open" /\ owner[sock[place[c]].fd] = c
Told(c) == sender[c] = "look" /\ ~sock[place[c]].flag

SendersRight ==
    /\ \A c \in Conns : sender[c] = "none" <=> place[c] = Null
    /\ \A c \in Conns : place[c] # Null /\ c \notin excused => Served(c) \/ Told(c)
    /\ ~astray

MsInv == MsTypes /\ MapRight /\ SlotsRight /\ OwnersRight /\ SendersRight /\ StuckOnlyAfter

\* No two slots in service have the same descriptor.
LEMMA FdsApart ==
    ASSUME MapRight, NEW s \in InService, NEW t \in InService, sock[s].fd = sock[t].fd
    PROVE  s = t
<1>1. PICK n \in Nodes : table[n].fd = sock[s].fd /\ table[n].id = s
  BY DEF MapRight
<1>2. PICK m \in Nodes : table[m].fd = sock[t].fd /\ table[m].id = t
  BY DEF MapRight
<1>3. table[n].fd # NoFd
  BY <1>1, SizesAre DEF MapRight
<1>4. n = m
  BY <1>1, <1>2, <1>3 DEF MapRight, OnceEach
<1>5. QED
  BY <1>1, <1>2, <1>4

LEMMA MsInitially == MsInit => MsInv
<1> SUFFICES ASSUME MsInit PROVE MsInv
  OBVIOUS
<1>1. /\ \A s \in Sockets : /\ sock[s].fd = IF s + 1 \in Sockets THEN s + 1 ELSE Null
                            /\ sock[s].status = "invalid" /\ sock[s].flag = TRUE
      /\ sock \in [Sockets -> Slots]
  BY DEF MsInit, Slots
<1>2. /\ \A n \in Nodes : table[n].fd = NoFd /\ table[n].next = NoNode
      /\ table \in Tables
  BY SizesAre DEF MsInit, NewMap, Tables, Ways
<1>3. MsTypes
  <2>1. owner \in [Fds -> Conns \cup {NoConn}] /\ conn \in [Conns -> ConnStates]
        /\ sender \in [Conns -> {"none", "start", "look", "write"}]
        /\ place \in [Conns -> Sockets \cup {Null}]
    BY DEF MsInit, ConnStates
  <2>2. queue \in Seq(Fds \cup {Listen}) /\ at # "pull" /\ lost \in SUBSET Sockets
        /\ msClosed \in Nat /\ freeSock \in Sockets
    BY SizesAre DEF MsInit
  <2>3. QED
    BY <1>1, <1>2, <2>1, <2>2 DEF MsTypes
<1>4. InService = {}
  BY <1>1 DEF InService
<1>5. MapRight
  BY <1>2, <1>4 DEF MapRight, Reachable, OnceEach
<1>6. SlotsRight
  <2>1. \E q \in Seq(Sockets) : FreeList(q)
    <3> DEFINE q == [i \in 1 .. MaxConnection |-> i - 1]
    <3>1. q \in Seq(Sockets) /\ Len(q) = MaxConnection /\ \A i \in 1 .. MaxConnection : q[i] = i - 1
      <4>1. \A i \in 1 .. MaxConnection : i - 1 \in Sockets
        BY SizesAre DEF Sockets
      <4>2. QED
        BY <4>1, SizesAre
    <3> HIDE DEF q
    <3>2. \A i, j \in 1 .. Len(q) : q[i] = q[j] => i = j
      BY <3>1, SizesAre
    <3>3. {q[i] : i \in 1 .. Len(q)} = {s \in Sockets : sock[s].status = "invalid"} \ lost
      <4>1. {s \in Sockets : sock[s].status = "invalid"} \ lost = Sockets
        BY <1>1 DEF MsInit
      <4>2. \A s \in Sockets : s + 1 \in 1 .. MaxConnection /\ q[s + 1] = s
        BY <3>1, SizesAre DEF Sockets
      <4>3. \A i \in 1 .. MaxConnection : q[i] \in Sockets
        BY <3>1, SizesAre DEF Sockets
      <4>4. QED
        BY <3>1, <4>1, <4>2, <4>3
    <3>4. freeSock \in IF q = <<>> THEN {Null, Wild} ELSE {q[1]}
      BY <3>1, SizesAre DEF MsInit
    <3>5. ASSUME NEW i \in 1 .. Len(q) PROVE sock[q[i]].fd \in IF i = Len(q) THEN {Null, Wild} ELSE {q[i + 1]}
      <4>1. q[i] = i - 1 /\ q[i] \in Sockets
        BY <3>1, SizesAre DEF Sockets
      <4>2. CASE i = Len(q)
        <5>1. ~(q[i] + 1 \in Sockets)
          BY <3>1, <4>1, <4>2, SizesAre DEF Sockets
        <5>2. QED
          BY <1>1, <4>1, <4>2, <5>1
      <4>3. CASE i # Len(q)
        <5>1. q[i] + 1 \in Sockets /\ q[i + 1] = q[i] + 1
          BY <3>1, <4>1, <4>3, SizesAre DEF Sockets
        <5>2. QED
          BY <1>1, <4>1, <4>3, <5>1
      <4>4. QED
        BY <4>2, <4>3
    <3>6. QED
      BY <3>1, <3>2, <3>3, <3>4, <3>5 DEF FreeList
  <2>2. msClosed = Cardinality({s \in Sockets : sock[s].status = "closed"})
    <3>1. {s \in Sockets : sock[s].status = "closed"} = {}
      BY <1>1
    <3>2. QED
      BY <3>1, FS_EmptySet DEF MsInit
  <2>3. freeSock \in Sockets /\ \A s \in Sockets : sock[s].fd # Wild
    BY <1>1, SizesAre DEF MsInit, Null, Wild
  <2>4. QED
    BY <2>1, <2>2, <2>3 DEF SlotsRight, MsInit
<1>7. OwnersRight
  BY <1>4, SocketsAssumption DEF OwnersRight, MsInit, Alive
<1>8. SendersRight
  BY DEF SendersRight, MsInit
<1>9. StuckOnlyAfter
  BY DEF StuckOnlyAfter, MsInit
<1>10. QED
  BY <1>3, <1>5, <1>6, <1>7, <1>8, <1>9 DEF MsInv

-----------------------------------------------------------------------------
(* What a step leaves alone.                                               *)

LEMMA MapStays == ASSUME MapRight, UNCHANGED <<sock, table, chained>> PROVE MapRight'
BY DEF MapRight, InService, Reachable, OnceEach

LEMMA SlotsStay == ASSUME SlotsRight, UNCHANGED <<sock, freeSock, lost, msClosed, full>> PROVE SlotsRight'
<1>1. ASSUME NEW q \in Seq(Sockets), FreeList(q) PROVE FreeList(q)'
  BY <1>1 DEF FreeList
<1>2. QED
  BY <1>1 DEF SlotsRight

LEMMA SendersStay ==
    ASSUME SendersRight, UNCHANGED <<sock, owner, sender, place, excused, astray>>
    PROVE  SendersRight'
BY DEF SendersRight, Served, Told

LEMMA StuckStays == ASSUME StuckOnlyAfter, UNCHANGED <<msFault, full, chained>> PROVE StuckOnlyAfter'
BY DEF StuckOnlyAfter

-----------------------------------------------------------------------------
(* The clients.                                                            *)

LEMMA ConnectKeeps == ASSUME MsInv, NEW c \in Conns, Connect(c) PROVE MsInv'
<1> USE DEF MsInv
<1>1. UNCHANGED <<registry, loopVars, threads, history, owner>> /\ conn[c] = "new"
      /\ conn' = [conn EXCEPT ![c] = "waiting"]
  BY DEF Connect
<1>2. MapRight' /\ SlotsRight' /\ SendersRight' /\ StuckOnlyAfter'
  BY <1>1, MapStays, SlotsStay, SendersStay, StuckStays DEF registry, loopVars, threads, history
<1>3. MsTypes'
  BY <1>1 DEF MsTypes, ConnStates, registry, loopVars, threads, history
<1>4. OwnersRight'
  BY <1>1 DEF OwnersRight, MsTypes, InService, Alive, registry, loopVars
<1>5. QED
  BY <1>2, <1>3, <1>4

LEMMA HangUpKeeps == ASSUME MsInv, NEW c \in Conns, HangUp(c) PROVE MsInv'
<1> USE DEF MsInv
<1>1. UNCHANGED <<registry, loopVars, threads, history, owner>> /\ conn[c] = "up"
      /\ conn' = [conn EXCEPT ![c] = "ended"]
  BY DEF HangUp
<1>2. MapRight' /\ SlotsRight' /\ SendersRight' /\ StuckOnlyAfter'
  BY <1>1, MapStays, SlotsStay, SendersStay, StuckStays DEF registry, loopVars, threads, history
<1>3. MsTypes'
  BY <1>1 DEF MsTypes, ConnStates, registry, loopVars, threads, history
<1>4. OwnersRight'
  BY <1>1 DEF OwnersRight, MsTypes, InService, Alive, registry, loopVars
<1>5. QED
  BY <1>2, <1>3, <1>4

-----------------------------------------------------------------------------
(* The main loop.                                                          *)

LEMMA QueueFilled ==
    ASSUME MsTypes, ReadEvents
    PROVE  queue' \in Seq(Fds \cup {Listen})
<1>1. PICK set \in SUBSET Ready : \E q \in SetToSeqs(set) : queue' = q
  BY DEF ReadEvents, kSubset
<1>2. PICK q \in [1 .. Cardinality(set) -> set] : queue' = q
  BY <1>1 DEF SetToSeqs
<1>3. IsFiniteSet(Fds \cup {Listen})
  BY SocketsAssumption, FS_AddElement
<1>4. set \in SUBSET (Fds \cup {Listen})
  BY <1>1 DEF Ready
<1>5. Cardinality(set) \in Nat
  BY <1>3, <1>4, FS_Subset, FS_CardinalityType
<1> HIDE DEF Ready
<1>6. QED
  BY <1>2, <1>4, <1>5

LEMMA ReadEventsKeeps == ASSUME MsInv, ReadEvents PROVE MsInv'
<1> USE DEF MsInv
<1>1. UNCHANGED <<registry, clients, threads, history, msClosed, msActive, at>>
  BY DEF ReadEvents
<1>2. MapRight' /\ SlotsRight' /\ SendersRight' /\ StuckOnlyAfter'
  BY <1>1, MapStays, SlotsStay, SendersStay, StuckStays DEF registry, clients, threads, history
<1>3. MsTypes'
  BY <1>1, QueueFilled DEF MsTypes, registry, clients, threads, history
<1>4. OwnersRight'
  BY <1>1 DEF OwnersRight, InService, registry, clients
<1>5. QED
  BY <1>2, <1>3, <1>4

LEMMA HaltKeeps ==
    ASSUME MsInv, NEW why, Halt(why), why = "circle" => chained, why = "wild slot" => full
    PROVE  MsInv'
<1> USE DEF MsInv
<1>1. /\ UNCHANGED <<registry, clients, threads, msClosed, msActive, queue, astray, full, chained, lost>>
      /\ msFault' = why /\ at' = "stopped"
  BY DEF Halt
<1>2. MapRight' /\ SlotsRight' /\ SendersRight'
  BY <1>1, MapStays, SlotsStay, SendersStay DEF registry, clients, threads
<1>3. MsTypes'
  BY <1>1 DEF MsTypes, registry, clients, threads
<1>4. OwnersRight'
  BY <1>1 DEF OwnersRight, InService, registry, clients
<1>5. StuckOnlyAfter'
  BY <1>1 DEF StuckOnlyAfter
<1>6. QED
  BY <1>2, <1>3, <1>4, <1>5

\* Without a link no walk goes round.
LEMMA CirclesChained == ASSUME MsInv, NEW f \in Fds, Circles(table, f) PROVE chained
<1>1. SUFFICES ASSUME ~chained PROVE FALSE
  OBVIOUS
<1>2. table \in Tables /\ \A n \in Nodes : table[n].next = NoNode
  BY <1>1 DEF MsInv, MsTypes, MapRight
<1>3. Reach(table, f, 1) = Goes(table, Hash(f))
  BY <1>2, ReachSteps
<1>4. Reach(table, f, 1) = NoNode
  BY <1>2, <1>3, HashIs DEF Goes
<1>5. 1 <= TableSize /\ TableSize \in Nat
  BY SizesAre
<1>6. QED
  BY <1>2, <1>4, <1>5, ReachEnds DEF Circles

LEMMA PullNothingKeeps == ASSUME MsInv, PullNothing PROVE MsInv'
<1> USE DEF MsInv
<1>1. UNCHANGED <<registry, clients, threads, history, msClosed, queue>> /\ at' = "poll"
  BY DEF PullNothing
<1>2. MapRight' /\ SlotsRight' /\ SendersRight' /\ StuckOnlyAfter'
  BY <1>1, MapStays, SlotsStay, SendersStay, StuckStays DEF registry, clients, threads, history
<1>3. MsTypes'
  BY <1>1 DEF MsTypes, registry, clients, threads, history
<1>4. OwnersRight'
  BY <1>1 DEF OwnersRight, InService, registry, clients
<1>5. QED
  BY <1>2, <1>3, <1>4

\* The descriptor of an event is that of an open slot, or of none.
LEMMA EventFound ==
    ASSUME MsInv, msClosed = 0, NEW f \in Fds, Search(table, f) # Null
    PROVE  Search(table, f) \in Sockets /\ sock[Search(table, f)].status = "open" /\ sock[Search(table, f)].fd = f
<1>1. table \in Tables
  BY DEF MsInv, MsTypes
<1>2. PICK n \in Nodes : table[n].fd = f /\ Search(table, f) = table[n].id
  BY <1>1, SearchIs
<1>3. table[n].id \in InService /\ sock[table[n].id].fd = f
  BY <1>2, SizesAre DEF MsInv, MapRight
<1>4. {s \in Sockets : sock[s].status = "closed"} = {}
  <2>1. IsFiniteSet(Sockets)
    BY SizesAre, FS_Interval DEF Sockets
  <2>2. IsFiniteSet({s \in Sockets : sock[s].status = "closed"})
    BY <2>1, FS_Subset
  <2>3. QED
    BY <2>2, FS_EmptySet DEF MsInv, SlotsRight
<1>5. QED
  BY <1>2, <1>3, <1>4 DEF InService

LEMMA PollClientKeeps == ASSUME MsInv, PollClient PROVE MsInv'
<1> DEFINE f == Head(queue)
<1>1. f \in Fds /\ Tail(queue) \in Seq(Fds \cup {Listen})
  <2>1. queue \in Seq(Fds \cup {Listen}) /\ queue # <<>> /\ f # Listen
    BY DEF PollClient, MsInv, MsTypes
  <2>2. QED
    BY <2>1
<1> HIDE DEF f
<1>2. CASE SearchEnds(table, f)
  <2>1. /\ msActive' = Search(table, f) /\ at' = IF Search(table, f) = Null THEN "poll" ELSE "pull"
        /\ queue' = Tail(queue) /\ msClosed = 0
        /\ UNCHANGED <<registry, clients, threads, history, msClosed>>
    BY <1>2 DEF PollClient, f
  <2>2. MapRight' /\ SlotsRight' /\ SendersRight' /\ StuckOnlyAfter'
    BY <2>1, MapStays, SlotsStay, SendersStay, StuckStays DEF MsInv, registry, clients, threads, history
  <2>3. MsTypes'
    <3>1. at' = "pull" => msActive' \in Sockets /\ sock[msActive'].status = "open"
      BY <1>1, <2>1, EventFound
    <3>2. QED
      BY <1>1, <2>1, <3>1 DEF MsInv, MsTypes, registry, clients, threads, history
  <2>4. OwnersRight'
    BY <2>1 DEF MsInv, OwnersRight, InService, registry, clients
  <2>5. QED
    BY <2>2, <2>3, <2>4 DEF MsInv
<1>3. CASE ~SearchEnds(table, f)
  <2>1. Halt("circle")
    BY <1>3 DEF PollClient, f
  <2>2. chained
    BY <1>1, <1>3, CirclesChained DEF SearchEnds
  <2>3. QED
    BY <2>1, <2>2, HaltKeeps
<1>4. QED
  BY <1>2, <1>3

-----------------------------------------------------------------------------
(* The senders.                                                            *)

\* The invariant after a step of a sender, whose slot and flag it leaves alone.
LEMMA GoesOnKeeps ==
    ASSUME MsInv, NEW c \in Conns, sender[c] # "none", NEW on \in BOOLEAN, NEW next \in {"look", "write"},
           GoesOn(c, on, next), UNCHANGED <<sock, owner>>, ~astray',
           on /\ c \notin excused => Served(c)
    PROVE  SendersRight'
<1>1. place[c] \in Sockets
  BY DEF MsInv, MsTypes, SendersRight
<1>2. CASE on
  <2>1. sender' = [sender EXCEPT ![c] = next] /\ UNCHANGED <<place, excused>>
    BY <1>2 DEF GoesOn
  <2>2. ASSUME NEW d \in Conns PROVE sender'[d] = "none" <=> place'[d] = Null
    BY <1>1, <2>1, SizesAre DEF MsInv, MsTypes, SendersRight
  <2>3. ASSUME NEW d \in Conns, place'[d] # Null, d \notin excused' PROVE Served(d)' \/ Told(d)'
    BY <1>2, <2>1, <2>3 DEF MsInv, MsTypes, SendersRight, Served, Told
  <2>4. QED
    BY <2>2, <2>3 DEF MsInv, SendersRight
<1>3. CASE ~on
  <2>1. /\ sender' = [sender EXCEPT ![c] = "none"] /\ place' = [place EXCEPT ![c] = Null]
        /\ excused' = excused \ {c}
    BY <1>3 DEF GoesOn
  <2>2. ASSUME NEW d \in Conns PROVE sender'[d] = "none" <=> place'[d] = Null
    BY <2>1 DEF MsInv, MsTypes, SendersRight
  <2>3. ASSUME NEW d \in Conns, place'[d] # Null, d \notin excused' PROVE Served(d)' \/ Told(d)'
    BY <2>1, <2>3 DEF MsInv, MsTypes, SendersRight, Served, Told
  <2>4. QED
    BY <2>2, <2>3 DEF MsInv, SendersRight
<1>4. QED
  BY <1>2, <1>3

LEMMA GoesOnTyped ==
    ASSUME MsTypes, NEW c \in Conns, NEW on \in BOOLEAN, NEW next \in {"look", "write"}, GoesOn(c, on, next)
    PROVE  /\ sender' \in [Conns -> {"none", "start", "look", "write"}]
           /\ place' \in [Conns -> Sockets \cup {Null}]
BY DEF GoesOn, MsTypes

LEMMA LookKeeps == ASSUME MsInv, NEW c \in Conns, Look(c) PROVE MsInv'
<1>1. /\ sender[c] = "look" /\ GoesOn(c, sock[place[c]].flag, "write")
      /\ UNCHANGED <<registry, clients, loopVars, history>>
  BY DEF Look
<1>2. place[c] \in Sockets /\ sock[place[c]].flag \in BOOLEAN
  BY <1>1 DEF MsInv, MsTypes, SendersRight, Slots
<1>3. SendersRight'
  <2>1. sock[place[c]].flag /\ c \notin excused => Served(c)
    BY <1>2, SizesAre DEF MsInv, SendersRight, Told
  <2>2. QED
    BY <1>1, <1>2, <2>1, GoesOnKeeps DEF MsInv, SendersRight, registry, clients, history
<1>4. MapRight' /\ SlotsRight' /\ StuckOnlyAfter'
  BY <1>1, MapStays, SlotsStay, StuckStays DEF MsInv, registry, clients, loopVars, history
<1>5. MsTypes'
  BY <1>1, <1>2, GoesOnTyped DEF MsInv, MsTypes, registry, clients, loopVars, history
<1>6. OwnersRight'
  BY <1>1 DEF MsInv, OwnersRight, InService, registry, clients
<1>7. QED
  BY <1>3, <1>4, <1>5, <1>6 DEF MsInv

LEMMA WriteKeeps ==
    ASSUME MsInv, NEW c \in Conns, sender[c] \in {"start", "write"}, Write(c, "look")
    PROVE  MsInv'
<1> DEFINE d == Target(c)
<1>1. place[c] \in Sockets
  BY DEF MsInv, MsTypes, SendersRight
<1>2. d \in Conns \cup {NoConn}
  BY <1>1 DEF MsInv, MsTypes, Target
\* A sender that is not excused writes to its client.
<1>3. c \notin excused => Served(c) /\ d = c
  <2>1. c \notin excused => Served(c)
    BY <1>1, SizesAre DEF MsInv, SendersRight, Told
  <2>2. Served(c) => sock[place[c]].fd \in Fds
    BY <1>1 DEF MsInv, MapRight, InService, Served
  <2>3. QED
    BY <2>1, <2>2 DEF Target, Served
<1> HIDE DEF d
<1>4. CASE d # NoConn /\ conn[d] = "reset"
  <2>1. Halt("SIGPIPE")
    BY <1>4 DEF Write, d
  <2>2. QED
    BY <2>1, HaltKeeps
<1>5. CASE ~(d # NoConn /\ conn[d] = "reset")
  <2>1. /\ GoesOn(c, d # NoConn, "look")
        /\ conn' = IF d # NoConn /\ conn[d] = "ended" THEN [conn EXCEPT ![d] = "reset"] ELSE conn
        /\ astray' = (astray \/ Misses(c))
        /\ UNCHANGED <<registry, loopVars, owner, asked, full, chained, lost, msFault>>
    BY <1>5 DEF Write, d
  <2>2. ~astray'
    BY <1>3, <2>1 DEF Misses, d, MsInv, SendersRight
  <2>3. SendersRight'
    <3>1. (d # NoConn) \in BOOLEAN
      OBVIOUS
    <3>2. UNCHANGED <<sock, owner>> /\ sender[c] # "none"
      BY <2>1 DEF registry
    <3>3. QED
      BY <1>3, <2>1, <2>2, <3>1, <3>2, GoesOnKeeps
  <2>4. MapRight' /\ SlotsRight' /\ StuckOnlyAfter'
    BY <2>1, MapStays, SlotsStay, StuckStays DEF MsInv, registry, loopVars
  <2>5. conn' \in [Conns -> ConnStates]
    BY <1>2, <2>1 DEF MsInv, MsTypes, ConnStates
  <2>6. MsTypes'
    BY <2>1, <2>5, GoesOnTyped DEF MsInv, MsTypes, registry, loopVars
  <2>7. OwnersRight'
    <3>1. ASSUME NEW e \in Conns PROVE conn'[e] \in Alive <=> conn[e] \in Alive
      BY <1>2, <2>1 DEF MsInv, MsTypes, Alive
    <3>2. QED
      BY <2>1, <3>1 DEF MsInv, OwnersRight, InService, registry
  <2>8. QED
    BY <2>3, <2>4, <2>6, <2>7 DEF MsInv
<1>6. QED
  BY <1>4, <1>5

-----------------------------------------------------------------------------
(* A slot is taken.                                                        *)

LEMMA FirstFree ==
    ASSUME MsTypes, NEW q \in Seq(Sockets), FreeList(q), freeSock \in Sockets
    PROVE  /\ Len(q) \in Nat \ {0} /\ q # <<>> /\ q[1] = freeSock
           /\ sock[freeSock].status = "invalid" /\ freeSock \notin lost
           /\ NextFree \in IF Len(q) = 1 THEN {Null, Wild} ELSE {q[2]}
           /\ sock[freeSock].fd = Wild => NextFree = Wild
           /\ NextFree = Wild => sock[freeSock].fd = Wild
<1>0. freeSock \in IF q = <<>> THEN {Null, Wild} ELSE {q[1]}
  BY DEF FreeList
<1>1. q # <<>> /\ q[1] = freeSock
  BY <1>0, SizesAre
<1>2. Len(q) \in Nat \ {0} /\ 1 \in 1 .. Len(q) /\ q[1] = freeSock
  BY <1>1
<1>3. freeSock \in {s \in Sockets : sock[s].status = "invalid"} \ lost
  BY <1>2 DEF FreeList
<1>4. sock[freeSock].fd \in IF 1 = Len(q) THEN {Null, Wild} ELSE {q[2]}
  <2>1. \A i \in 1 .. Len(q) : sock[q[i]].fd \in IF i = Len(q) THEN {Null, Wild} ELSE {q[i + 1]}
    BY DEF FreeList
  <2>2. sock[q[1]].fd \in IF 1 = Len(q) THEN {Null, Wild} ELSE {q[1 + 1]}
    BY <1>2, <2>1
  <2>3. 1 + 1 = 2
    OBVIOUS
  <2>4. QED
    BY <1>2, <2>2, <2>3
<1>5. ASSUME Len(q) # 1 PROVE q[2] \in Sockets
  <2>1. \A n \in Nat \ {0} : n # 1 => 2 \in 1 .. n
    OBVIOUS
  <2>2. 2 \in 1 .. Len(q)
    BY <1>2, <1>5, <2>1
  <2>3. QED
    BY <2>2
<1>6. QED
  BY <1>1, <1>2, <1>3, <1>4, <1>5, SizesAre DEF NextFree, Null, Wild

\* The list goes on behind the slot that was taken.
LEMMA TakeFree ==
    ASSUME MsTypes, SlotsRight, freeSock \in Sockets, freeSock' = NextFree,
           \A s \in Sockets : s # freeSock => sock'[s] = sock[s],
           {s \in Sockets : sock'[s].status = "invalid"} \ lost' =
               ({s \in Sockets : sock[s].status = "invalid"} \ lost) \ {freeSock}
    PROVE  (\E q \in Seq(Sockets) : FreeList(q))'
<1>1. PICK q \in Seq(Sockets) : FreeList(q)
  BY DEF SlotsRight
<1>2. /\ Len(q) \in Nat \ {0} /\ q # <<>> /\ q[1] = freeSock
      /\ NextFree \in IF Len(q) = 1 THEN {Null, Wild} ELSE {q[2]}
  BY <1>1, FirstFree
<1> DEFINE t == Tail(q)
<1>3. /\ t \in Seq(Sockets) /\ Len(t) = Len(q) - 1 /\ \A i \in 1 .. Len(t) : t[i] = q[i + 1]
      /\ \A i \in 1 .. Len(t) : i \in Nat /\ i + 1 \in 1 .. Len(q)
  BY <1>2
<1> HIDE DEF t
<1>4. \A i, j \in 1 .. Len(t) : t[i] = t[j] => i = j
  <2>1. ASSUME NEW i \in 1 .. Len(t), NEW j \in 1 .. Len(t), t[i] = t[j] PROVE i = j
    <3>1. i + 1 = j + 1
      BY <1>1, <1>3, <2>1 DEF FreeList
    <3>2. QED
      BY <1>3, <3>1
  <2>2. QED
    BY <2>1
<1>5. ASSUME NEW i \in 1 .. Len(t) PROVE t[i] # freeSock /\ t[i] \in Sockets /\ sock'[t[i]] = sock[t[i]]
  <2>1. q[i + 1] # q[1]
    <3>1. i + 1 # 1 /\ 1 \in 1 .. Len(q) /\ i + 1 \in 1 .. Len(q)
      BY <1>2, <1>3
    <3>2. QED
      BY <1>1, <3>1 DEF FreeList
  <2>2. t[i] # freeSock /\ t[i] \in Sockets
    BY <1>2, <1>3, <2>1
  <2>3. QED
    BY <2>2
<1>6. {t[i] : i \in 1 .. Len(t)} = {s \in Sockets : sock'[s].status = "invalid"} \ lost'
  <2>1. \A i \in 1 .. Len(q) : q[i] = q[1] \/ \E j \in 1 .. Len(t) : t[j] = q[i]
    <3>1. ASSUME NEW i \in 1 .. Len(q), i # 1 PROVE \E j \in 1 .. Len(t) : t[j] = q[i]
      <4>1. i - 1 \in 1 .. Len(t) /\ (i - 1) + 1 = i
        BY <1>2, <1>3, <3>1
      <4>2. QED
        BY <1>3, <4>1
    <3>2. QED
      BY <3>1
  <2>2. {t[i] : i \in 1 .. Len(t)} = {q[i] : i \in 1 .. Len(q)} \ {freeSock}
    <3>1. \A i \in 1 .. Len(t) : t[i] # freeSock /\ \E j \in 1 .. Len(q) : q[j] = t[i]
      BY <1>3, <1>5
    <3>2. \A i \in 1 .. Len(q) : q[i] # freeSock => \E j \in 1 .. Len(t) : t[j] = q[i]
      BY <1>2, <2>1
    <3>3. ASSUME NEW x \in {t[i] : i \in 1 .. Len(t)} PROVE x \in {q[i] : i \in 1 .. Len(q)} \ {freeSock}
      BY <3>1
    <3>4. ASSUME NEW x \in {q[i] : i \in 1 .. Len(q)} \ {freeSock} PROVE x \in {t[i] : i \in 1 .. Len(t)}
      BY <3>2
    <3>5. QED
      BY <3>3, <3>4
  <2>3. QED
    BY <1>1, <2>2 DEF FreeList
<1>7. freeSock' \in IF t = <<>> THEN {Null, Wild} ELSE {t[1]}
  <2>1. CASE Len(q) = 1
    BY <1>2, <1>3, <2>1
  <2>2. CASE Len(q) # 1
    <3>1. 1 \in 1 .. Len(t) /\ t # <<>> /\ t[1] = q[2]
      BY <1>2, <1>3, <2>2
    <3>2. QED
      BY <1>2, <2>2, <3>1
  <2>3. QED
    BY <2>1, <2>2
<1>8. ASSUME NEW i \in 1 .. Len(t) PROVE sock'[t[i]].fd \in IF i = Len(t) THEN {Null, Wild} ELSE {t[i + 1]}
  <2>1. sock[q[i + 1]].fd \in IF i + 1 = Len(q) THEN {Null, Wild} ELSE {q[(i + 1) + 1]}
    BY <1>1, <1>3 DEF FreeList
  <2>2. CASE i = Len(t)
    BY <1>2, <1>3, <1>5, <2>1, <2>2
  <2>3. CASE i # Len(t)
    <3>1. i + 1 \in 1 .. Len(t) /\ i + 1 # Len(q)
      BY <1>2, <1>3, <2>3
    <3>2. QED
      BY <1>3, <1>5, <2>1, <2>3, <3>1
  <2>4. QED
    BY <2>2, <2>3
<1>9. FreeList(t)'
  BY <1>4, <1>6, <1>7, <1>8 DEF FreeList
<1>10. QED
  BY <1>3, <1>9

LEMMA SlotTaken ==
    ASSUME MsInv, freeSock \in Sockets, freeSock' = NextFree, full' = (full \/ NextFree = Null),
           UNCHANGED msClosed, \A s \in Sockets : s # freeSock => sock'[s] = sock[s],
           \A s \in lost' : sock'[s].status = "invalid",
           sock'[freeSock].status # "closed", sock'[freeSock].fd # Wild \/ sock'[freeSock].fd = sock[freeSock].fd,
           {s \in Sockets : sock'[s].status = "invalid"} \ lost' =
               ({s \in Sockets : sock[s].status = "invalid"} \ lost) \ {freeSock}
    PROVE  SlotsRight' /\ freeSock' \in Sockets \cup {Null, Wild}
<1>1. PICK q \in Seq(Sockets) : FreeList(q)
  BY DEF MsInv, SlotsRight
<1>2. MsTypes /\ SlotsRight
  BY DEF MsInv
<1>3. /\ sock[freeSock].status = "invalid" /\ NextFree \in Sockets \cup {Null, Wild}
      /\ NextFree = Wild => sock[freeSock].fd = Wild
  <2>1. Len(q) = 1 \/ q[2] \in Sockets
    <3>1. \A n \in Nat \ {0} : n = 1 \/ 2 \in 1 .. n
      OBVIOUS
    <3>2. Len(q) \in Nat \ {0}
      BY <1>1, <1>2, FirstFree
    <3>3. Len(q) = 1 \/ 2 \in 1 .. Len(q)
      BY <3>1, <3>2
    <3>4. QED
      BY <3>3
  <2>2. QED
    BY <1>1, <1>2, <2>1, FirstFree
<1>4. (\E q_1 \in Seq(Sockets) : FreeList(q_1))'
  BY <1>2, TakeFree
<1>5. {s \in Sockets : sock'[s].status = "closed"} = {s \in Sockets : sock[s].status = "closed"}
  BY <1>3
<1>6. freeSock' \notin Sockets \/ (\E s \in Sockets : sock'[s].fd = Wild) => full'
  BY <1>2, <1>3 DEF SlotsRight
<1>7. QED
  BY <1>2, <1>3, <1>4, <1>5, <1>6 DEF SlotsRight

LEMMA NoSlotKeeps ==
    ASSUME MsInv, NEW c \in Waiting, NoSlot(c), queue' \in Seq(Fds \cup {Listen}),
           UNCHANGED <<threads, msClosed, msActive, at, asked, astray, msFault>>
    PROVE  MsInv'
<1>1. c \in Conns /\ conn[c] = "waiting" /\ conn' = [conn EXCEPT ![c] = "gone"]
      /\ UNCHANGED <<registry, owner, full, chained, lost>>
  BY DEF NoSlot, Waiting
<1>2. MapRight' /\ SlotsRight' /\ SendersRight' /\ StuckOnlyAfter'
  BY <1>1, MapStays, SlotsStay, SendersStay, StuckStays DEF MsInv, registry, threads
<1>3. MsTypes'
  BY <1>1 DEF MsInv, MsTypes, ConnStates, registry, threads
<1>4. OwnersRight'
  BY <1>1 DEF MsInv, OwnersRight, MsTypes, InService, Alive, registry
<1>5. QED
  BY <1>2, <1>3, <1>4 DEF MsInv

LEMMA EpollFailsKeeps ==
    ASSUME MsInv, NEW c \in Waiting, EpollFails(c), queue' \in Seq(Fds \cup {Listen}),
           UNCHANGED <<threads, msClosed, msActive, at, asked, astray, msFault>>
    PROVE  MsInv'
<1>1. c \in Conns /\ conn[c] = "waiting" /\ conn' = [conn EXCEPT ![c] = "gone"]
      /\ freeSock \in Sockets /\ freeSock' = NextFree /\ lost' = lost \cup {freeSock}
      /\ full' = (full \/ NextFree = Null) /\ UNCHANGED <<sock, table, owner, chained>>
  BY DEF EpollFails, Waiting
<1>2. MapRight' /\ SendersRight'
  BY <1>1, MapStays, SendersStay DEF MsInv, threads
<1>3. SlotsRight' /\ freeSock' \in Sockets \cup {Null, Wild}
  <2>1. sock[freeSock].status = "invalid"
    <3>1. PICK q \in Seq(Sockets) : FreeList(q)
      BY DEF MsInv, SlotsRight
    <3>2. QED
      BY <1>1, <3>1, FirstFree DEF MsInv
  <2>2. {s \in Sockets : sock[s].status = "invalid"} \ lost' =
            ({s \in Sockets : sock[s].status = "invalid"} \ lost) \ {freeSock}
    BY <1>1
  <2>3. \A t \in lost' : sock[t].status = "invalid"
    BY <1>1, <2>1 DEF MsInv, SlotsRight
  <2>4. QED
    BY <1>1, <2>1, <2>2, <2>3, SlotTaken
<1>4. StuckOnlyAfter'
  BY <1>1 DEF MsInv, StuckOnlyAfter
<1>5. MsTypes'
  BY <1>1, <1>3 DEF MsInv, MsTypes, ConnStates, threads
<1>6. OwnersRight'
  BY <1>1 DEF MsInv, OwnersRight, MsTypes, InService, Alive
<1>7. QED
  BY <1>2, <1>3, <1>4, <1>5, <1>6 DEF MsInv

LEMMA SocketsFinite == IsFiniteSet(Sockets) /\ Cardinality(Sockets) = MaxConnection
BY SizesAre, FS_Interval DEF Sockets

LEMMA NoneClosed == ASSUME MsInv, msClosed = 0, NEW s \in Sockets PROVE sock[s].status # "closed"
<1>1. IsFiniteSet({t \in Sockets : sock[t].status = "closed"})
  BY SocketsFinite, FS_Subset
<1>2. QED
  BY <1>1, FS_EmptySet DEF MsInv, SlotsRight

\* A descriptor without a connection is not in the map when no client waits for
\* mread_closed.
LEMMA FdFree ==
    ASSUME MsInv, msClosed = 0, NEW f \in Fds, owner[f] = NoConn
    PROVE  /\ \A n \in Nodes : table[n].fd # f
           /\ \A s \in InService : sock[s].fd # f
<1>1. ASSUME NEW s \in InService, sock[s].fd = f PROVE FALSE
  <2>1. sock[s].status = "open"
    BY NoneClosed DEF InService
  <2>2. QED
    BY <1>1, <2>1 DEF MsInv, OwnersRight
<1>2. ASSUME NEW n \in Nodes, table[n].fd = f PROVE FALSE
  <2>1. table[n].id \in InService /\ sock[table[n].id].fd = f
    BY <1>2, SizesAre DEF MsInv, MapRight
  <2>2. QED
    BY <1>1, <2>1
<1>3. QED
  BY <1>1, <1>2

\* The table has more nodes than there are slots: one is free.
LEMMA NodeFree == ASSUME MsInv PROVE FreeNodes(table) # {}
<1>1. SUFFICES ASSUME \A n \in Nodes : table[n].fd # NoFd PROVE FALSE
  BY DEF FreeNodes
<1> DEFINE g == [n \in Nodes |-> table[n].id]
<1>2. g \in [Nodes -> Sockets]
  BY DEF MsInv, MsTypes, Tables
<1>3. IsFiniteSet(Nodes) /\ Cardinality(Sockets) < Cardinality(Nodes)
  <2>1. IsFiniteSet(Nodes) /\ Cardinality(Nodes) = TableSize
    BY SizesAre, FS_Interval DEF Nodes
  <2>2. QED
    BY <2>1, SocketsFinite, SizesAre
<1>4. PICK x, y \in Nodes : x # y /\ g[x] = g[y]
  <2> HIDE DEF g
  <2>1. QED
    BY <1>2, <1>3, SocketsFinite, FS_PigeonHole
<1>5. table[x].fd = table[y].fd
  BY <1>1, <1>4 DEF MsInv, MapRight
<1>6. QED
  BY <1>1, <1>4, <1>5 DEF MsInv, MapRight, OnceEach

LEMMA InsertIs ==
    ASSUME MsInv, NEW f \in Fds, NEW s \in Sockets, InsertEnds(table, f)
    PROVE  \E n \in Nodes : Inserted(table, Insert(table, f, s), n, f, s)
<1>1. table \in Tables
  BY DEF MsInv, MsTypes
<1>2. CASE FreeOnWalk(table, f) # {}
  BY <1>1, <1>2, InsertOnWalk
<1>3. CASE FreeOnWalk(table, f) = {}
  <2>1. ~Circles(table, f)
    BY <1>3 DEF InsertEnds
  <2>2. QED
    BY <1>1, <1>3, <2>1, NodeFree, InsertBehind
<1>4. QED
  BY <1>2, <1>3

LEMMA AddClientMap ==
    ASSUME MsInv, msClosed = 0, NEW f \in Fds, owner[f] = NoConn, NEW s \in Sockets,
           sock[s].status = "invalid", InsertEnds(table, f),
           sock' = [sock EXCEPT ![s].fd = f, ![s].status = "open"],
           table' = Insert(table, f, s), chained' = (chained \/ FreeOnWalk(table, f) = {})
    PROVE  MapRight' /\ table' \in Tables
<1>1. PICK n \in Nodes : Inserted(table, table', n, f, s)
  BY InsertIs
<1>2. table \in Tables /\ sock \in [Sockets -> Slots]
  BY DEF MsInv, MsTypes
<1>3. /\ table' \in Tables /\ table[n].fd = NoFd /\ table'[n].fd = f /\ table'[n].id = s
      /\ \A m \in Nodes : m # n => table'[m].fd = table[m].fd /\ table'[m].id = table[m].id
      /\ Longer(table, table') /\ n \in Walk(table', f)
      /\ FreeOnWalk(table, f) # {} => \A m \in Nodes : table'[m].next = table[m].next
  BY <1>1 DEF Inserted
<1>4. /\ sock'[s].fd = f /\ sock'[s].status = "open" /\ \A t \in Sockets : t # s => sock'[t] = sock[t]
      /\ InService' = InService \cup {s} /\ s \notin InService
  BY <1>2 DEF InService, Slots
<1>5. \A m \in Nodes : table[m].fd # f
  BY FdFree
<1>6. Reachable(table')
  <2>1. SUFFICES ASSUME NEW m \in Nodes, table'[m].fd # NoFd PROVE m \in Walk(table', table'[m].fd)
    BY DEF Reachable
  <2>2. CASE m = n
    BY <1>3, <2>2
  <2>3. CASE m # n
    <3>1. table'[m].fd = table[m].fd /\ table[m].fd \in Fds /\ table[m].fd # NoFd
      BY <1>2, <1>3, <2>1, <2>3 DEF Tables
    <3>2. m \in Walk(table, table[m].fd)
      BY <3>1 DEF MsInv, MapRight, Reachable
    <3>3. Walk(table, table[m].fd) \subseteq Walk(table', table[m].fd)
      BY <1>2, <1>3, <3>1, WalkGrows
    <3>4. QED
      BY <3>1, <3>2, <3>3
  <2>4. QED
    BY <2>2, <2>3
<1>7. OnceEach(table')
  BY <1>3, <1>5 DEF OnceEach, MsInv, MapRight
<1>8. ASSUME NEW m \in Nodes, table'[m].fd # NoFd
      PROVE  table'[m].id \in InService' /\ sock'[table'[m].id].fd = table'[m].fd
  <2>1. CASE m = n
    BY <1>3, <1>4, <2>1
  <2>2. CASE m # n
    <3>1. table[m].id \in InService /\ sock[table[m].id].fd = table[m].fd
      BY <1>3, <1>8, <2>2 DEF MsInv, MapRight
    <3>2. table[m].id \in Sockets /\ table[m].id # s
      BY <1>4, <3>1 DEF InService
    <3>3. QED
      BY <1>3, <1>4, <2>2, <3>1, <3>2
  <2>3. QED
    BY <2>1, <2>2
<1>9. ASSUME NEW t \in InService'
      PROVE  sock'[t].fd \in Fds /\ \E m \in Nodes : table'[m].fd = sock'[t].fd /\ table'[m].id = t
  <2>1. CASE t = s
    BY <1>3, <1>4, <2>1
  <2>2. CASE t # s
    <3>1. t \in InService /\ t \in Sockets /\ sock'[t] = sock[t]
      BY <1>4, <1>9, <2>2 DEF InService
    <3>2. PICK m \in Nodes : table[m].fd = sock[t].fd /\ table[m].id = t
      BY <3>1 DEF MsInv, MapRight
    <3>3. sock[t].fd \in Fds
      BY <3>1 DEF MsInv, MapRight
    <3>4. m # n
      BY <1>3, <3>2, <3>3, SizesAre
    <3>5. QED
      BY <1>3, <3>1, <3>2, <3>3, <3>4
  <2>3. QED
    BY <2>1, <2>2
<1>10. ~chained' => \A m \in Nodes : table'[m].next = NoNode
  BY <1>3 DEF MsInv, MapRight
<1>11. QED
  BY <1>3, <1>6, <1>7, <1>8, <1>9, <1>10 DEF MapRight

LEMMA AddClientKeeps ==
    ASSUME MsInv, msClosed = 0, NEW c \in Waiting, NEW f \in Fds, owner[f] = NoConn, AddClient(c, f),
           queue' \in Seq(Fds \cup {Listen}),
           UNCHANGED <<threads, msClosed, msActive, at, asked, astray, msFault>>
    PROVE  MsInv'
<1> DEFINE s == freeSock
<1>1. /\ s \in Sockets /\ InsertEnds(table, f) /\ freeSock' = NextFree
      /\ full' = (full \/ NextFree = Null) /\ sock' = [sock EXCEPT ![s].fd = f, ![s].status = "open"]
      /\ table' = Insert(table, f, s) /\ chained' = (chained \/ FreeOnWalk(table, f) = {})
      /\ owner' = [owner EXCEPT ![f] = c] /\ conn' = [conn EXCEPT ![c] = "up"] /\ UNCHANGED lost
  BY DEF AddClient
<1>2. c \in Conns /\ conn[c] = "waiting"
  BY DEF Waiting
<1>3. sock[s].status = "invalid" /\ s \notin lost
  <2>1. PICK q \in Seq(Sockets) : FreeList(q)
    BY DEF MsInv, SlotsRight
  <2>2. QED
    BY <1>1, <2>1, FirstFree DEF MsInv
<1> HIDE DEF s
<1>4. /\ sock'[s].fd = f /\ sock'[s].status = "open" /\ sock'[s].flag = sock[s].flag
      /\ \A t \in Sockets : t # s => sock'[t] = sock[t]
      /\ sock' \in [Sockets -> Slots]
  <2> DEFINE v == [sock[s] EXCEPT !.fd = f, !.status = "open"]
  <2>1. sock \in [Sockets -> Slots]
    BY DEF MsInv, MsTypes
  <2>2. v \in Slots /\ v.fd = f /\ v.status = "open" /\ v.flag = sock[s].flag
    BY <1>1, <2>1 DEF Slots
  <2>3. sock' = [sock EXCEPT ![s] = v]
    BY <1>1, <2>1
  <2> HIDE DEF v
  <2>4. QED
    BY <1>1, <2>1, <2>2, <2>3
<1>5. MapRight' /\ table' \in Tables
  BY <1>1, <1>3, AddClientMap
<1>6. SlotsRight' /\ freeSock' \in Sockets \cup {Null, Wild}
  <2>1. {t \in Sockets : sock'[t].status = "invalid"} \ lost' =
            ({t \in Sockets : sock[t].status = "invalid"} \ lost) \ {s}
    BY <1>1, <1>4
  <2>2. sock'[s].fd # Wild
    BY <1>4, SizesAre
  <2>3. \A t \in lost' : sock'[t].status = "invalid"
    BY <1>1, <1>3, <1>4 DEF MsInv, MsTypes, SlotsRight
  <2>4. QED
    BY <1>1, <1>4, <2>1, <2>2, <2>3, SlotTaken DEF s
<1>7. MsTypes'
  <2>1. owner' \in [Fds -> Conns \cup {NoConn}] /\ conn' \in [Conns -> ConnStates]
    BY <1>1, <1>2 DEF MsInv, MsTypes, ConnStates
  <2>2. at' = "pull" => msActive' \in Sockets /\ sock'[msActive'].status = "open"
    BY <1>4 DEF MsInv, MsTypes
  <2>3. QED
    BY <1>1, <1>4, <1>5, <1>6, <2>1, <2>2 DEF MsInv, MsTypes, threads
<1>8. /\ owner'[f] = c /\ \A g \in Fds : g # f => owner'[g] = owner[g]
      /\ c # NoConn
  BY <1>1, <1>2, SocketsAssumption DEF MsInv, MsTypes
<1>9. InService' = InService \cup {s} /\ s \notin InService /\ \A t \in InService : sock[t].fd \in Fds /\ sock[t].fd # f
  BY <1>1, <1>3, <1>4, FdFree DEF InService, MsInv, MapRight
<1>10. OwnersRight'
  <2>1. ASSUME NEW t \in InService' PROVE (sock'[t].status = "open") = (owner'[sock'[t].fd] # NoConn)
    <3>1. CASE t = s
      BY <1>4, <1>8, <3>1
    <3>2. CASE t # s
      <4>1. t \in InService /\ t \in Sockets
        BY <1>9, <2>1, <3>2 DEF InService
      <4>2. sock'[t] = sock[t] /\ owner'[sock[t].fd] = owner[sock[t].fd]
        BY <1>4, <1>8, <1>9, <3>2, <4>1
      <4>3. QED
        BY <4>1, <4>2 DEF MsInv, OwnersRight
    <3>3. QED
      BY <3>1, <3>2
  <2>2. ASSUME NEW g \in Fds, owner'[g] # NoConn PROVE \E t \in Sockets : sock'[t].status = "open" /\ sock'[t].fd = g
    <3>1. CASE g = f
      BY <1>1, <1>4, <3>1 DEF s
    <3>2. CASE g # f
      BY <1>3, <1>4, <1>8, <2>2, <3>2 DEF MsInv, OwnersRight
    <3>3. QED
      BY <3>1, <3>2
  <2>3. \A g \in Fds : owner[g] # c
    BY <1>2 DEF MsInv, OwnersRight, Alive
  <2>4. ASSUME NEW g \in Fds, NEW h \in Fds, owner'[g] # NoConn, owner'[g] = owner'[h] PROVE g = h
    BY <1>8, <2>3, <2>4 DEF MsInv, OwnersRight
  <2>5. ASSUME NEW d \in Conns PROVE conn'[d] \in Alive <=> \E g \in Fds : owner'[g] = d
    <3>1. CASE d = c
      BY <1>1, <1>2, <1>8, <3>1 DEF MsInv, MsTypes, Alive
    <3>2. CASE d # c
      <4>1. conn'[d] = conn[d]
        BY <1>1, <3>2 DEF MsInv, MsTypes
      <4>2. (\E g \in Fds : owner'[g] = d) <=> (\E g \in Fds : owner[g] = d)
        BY <1>8, <3>2, SocketsAssumption
      <4>3. QED
        BY <4>1, <4>2 DEF MsInv, OwnersRight
    <3>3. QED
      BY <3>1, <3>2
  <2>6. QED
    BY <2>1, <2>2, <2>4, <2>5 DEF OwnersRight
<1>11. SendersRight'
  <2>1. UNCHANGED <<sender, place, excused, astray>>
    BY DEF threads
  <2>2. ASSUME NEW d \in Conns, place[d] \in Sockets, Served(d) \/ Told(d) PROVE Served(d)' \/ Told(d)'
    <3>1. CASE Told(d)
      BY <1>4, <2>1, <2>2, <3>1 DEF Told
    <3>2. CASE Served(d)
      <4>1. place[d] \in InService /\ place[d] # s
        BY <1>3, <2>2, <3>2 DEF Served, InService
      <4>2. QED
        BY <1>4, <1>8, <1>9, <2>1, <2>2, <3>2, <4>1 DEF Served
    <3>3. QED
      BY <2>2, <3>1, <3>2
  <2>3. QED
    BY <2>1, <2>2 DEF MsInv, MsTypes, SendersRight
<1>12. StuckOnlyAfter'
  BY <1>1 DEF MsInv, StuckOnlyAfter
<1>13. QED
  BY <1>5, <1>6, <1>7, <1>10, <1>11, <1>12 DEF MsInv

LEMMA AcceptClientKeeps == ASSUME MsInv, AcceptClient PROVE MsInv'
<1>1. msClosed = 0 /\ queue # <<>>
  BY DEF AcceptClient
<1>2. Tail(queue) \in Seq(Fds \cup {Listen})
  BY <1>1 DEF MsInv, MsTypes
<1>3. ASSUME NEW c \in Waiting, NEW f \in {g \in Fds : owner[g] = NoConn},
             NoSlot(c) \/ EpollFails(c) \/ AddClient(c, f),
             queue' = Tail(queue), UNCHANGED <<threads, msClosed, msActive, at, asked, astray, msFault>>
      PROVE  MsInv'
  BY <1>1, <1>2, <1>3, NoSlotKeeps, EpollFailsKeeps, AddClientKeeps
<1>4. CASE freeSock = Wild /\ Halt("wild slot")
  <2>1. full
    BY <1>4, SizesAre DEF MsInv, SlotsRight
  <2>2. QED
    BY <1>4, <2>1, HaltKeeps
<1>5. ASSUME NEW f \in Fds, ~InsertEnds(table, f), Halt("circle") PROVE MsInv'
  <2>1. chained
    BY <1>5, CirclesChained DEF InsertEnds
  <2>2. QED
    BY <1>5, <2>1, HaltKeeps
<1>6. CASE /\ queue' = Tail(queue)
           /\ UNCHANGED <<registry, clients, threads, history, msClosed, msActive, at>>
  <2>1. MapRight' /\ SlotsRight' /\ SendersRight' /\ StuckOnlyAfter'
    BY <1>6, MapStays, SlotsStay, SendersStay, StuckStays DEF MsInv, registry, clients, threads, history
  <2>2. MsTypes'
    BY <1>2, <1>6 DEF MsInv, MsTypes, registry, clients, threads, history
  <2>3. OwnersRight'
    BY <1>6 DEF MsInv, OwnersRight, InService, registry, clients
  <2>4. QED
    BY <2>1, <2>2, <2>3 DEF MsInv
<1>7. QED
  BY <1>3, <1>4, <1>5, <1>6 DEF AcceptClient

-----------------------------------------------------------------------------
(* A request, and the slots that are given back.                           *)

\* The client of an open slot.
LEMMA ClientOf ==
    ASSUME MsInv, NEW s \in Sockets, sock[s].status = "open"
    PROVE  s \in InService /\ sock[s].fd \in Fds /\ owner[sock[s].fd] \in Conns /\ s \notin lost
BY DEF MsInv, MsTypes, MapRight, OwnersRight, SlotsRight, InService

LEMMA PullRequestKeeps == ASSUME MsInv, PullRequest PROVE MsInv'
<1> DEFINE s == msActive
           c == owner[sock[s].fd]
<1>1. /\ at = "pull" /\ sender' = [sender EXCEPT ![c] = "start"] /\ place' = [place EXCEPT ![c] = s]
      /\ sock' = [sock EXCEPT ![s].flag = TRUE] /\ excused' = excused \cup Users(s)
      /\ at' = "poll" /\ UNCHANGED <<history, freeSock, msClosed, queue, table, owner, conn>>
  BY DEF PullRequest
<1>2. s \in Sockets /\ sock[s].status = "open"
  BY <1>1 DEF MsInv, MsTypes
<1>3. s \in InService /\ sock[s].fd \in Fds /\ c \in Conns
  BY <1>2, ClientOf
<1>4. /\ sock' \in [Sockets -> Slots]
      /\ \A t \in Sockets : sock'[t].fd = sock[t].fd /\ sock'[t].status = sock[t].status
      /\ \A t \in Sockets : t # s => sock'[t] = sock[t]
  BY <1>1, <1>2 DEF MsInv, MsTypes, Slots
<1>5. InService' = InService
  BY <1>4 DEF InService
<1>6. MsTypes'
  BY <1>1, <1>2, <1>3, <1>4 DEF MsInv, MsTypes, history
<1>7. MapRight'
  <2>1. \A t \in InService : t \in Sockets
    BY DEF InService
  <2>2. QED
    BY <1>1, <1>4, <1>5, <2>1 DEF MsInv, MapRight, Reachable, OnceEach, history
<1>8. SlotsRight'
  <2>1. ASSUME NEW q \in Seq(Sockets), FreeList(q) PROVE FreeList(q)'
    <3>1. \A i \in 1 .. Len(q) : q[i] \in Sockets
      OBVIOUS
    <3>2. {t \in Sockets : sock'[t].status = "invalid"} = {t \in Sockets : sock[t].status = "invalid"}
      BY <1>4
    <3>3. UNCHANGED <<freeSock, lost>>
      BY <1>1 DEF history
    <3>4. QED
      BY <1>4, <2>1, <3>1, <3>2, <3>3 DEF FreeList
  <2>2. {t \in Sockets : sock'[t].status = "closed"} = {t \in Sockets : sock[t].status = "closed"}
    BY <1>4
  <2>3. \A t \in lost : sock'[t].status = "invalid"
    BY <1>4 DEF MsInv, MsTypes, SlotsRight
  <2>4. QED
    BY <1>1, <1>4, <2>1, <2>2, <2>3 DEF MsInv, SlotsRight, history
<1>9. OwnersRight'
  <2>1. \A t \in InService : t \in Sockets
    BY DEF InService
  <2>2. QED
    BY <1>1, <1>4, <1>5, <2>1 DEF MsInv, OwnersRight, history
<1>10. SendersRight'
  <2>1. ASSUME NEW d \in Conns PROVE sender'[d] = "none" <=> place'[d] = Null
    BY <1>1, <1>2, <1>3, SizesAre DEF MsInv, MsTypes, SendersRight
  <2>2. ASSUME NEW d \in Conns, place'[d] # Null, d \notin excused' PROVE Served(d)' \/ Told(d)'
    <3>1. CASE d = c
      <4>1. place'[d] = s /\ sock'[s].status = "open" /\ owner'[sock'[s].fd] = c
        BY <1>1, <1>2, <1>3, <1>4, <3>1 DEF MsInv, MsTypes
      <4>2. QED
        BY <3>1, <4>1 DEF Served
    <3>2. CASE d # c
      <4>1. place'[d] = place[d] /\ sender'[d] = sender[d] /\ d \notin excused /\ place[d] # s
        BY <1>1, <2>2, <3>2 DEF MsInv, MsTypes, Users
      <4>2. place[d] \in Sockets /\ sock'[place[d]] = sock[place[d]] /\ owner' = owner
        BY <1>1, <1>4, <2>2, <4>1 DEF MsInv, MsTypes
      <4>3. QED
        BY <2>2, <4>1, <4>2 DEF MsInv, SendersRight, Served, Told
    <3>3. QED
      BY <3>1, <3>2
  <2>3. QED
    BY <1>1, <2>1, <2>2 DEF MsInv, SendersRight, history
<1>11. StuckOnlyAfter'
  BY <1>1 DEF MsInv, StuckOnlyAfter, history
<1>12. QED
  BY <1>6, <1>7, <1>8, <1>9, <1>10, <1>11 DEF MsInv

\* What mread_yield does to the free list.
LEMMA SlotGiven ==
    ASSUME MsInv, NEW s \in InService, UNCHANGED <<lost, full>>, freeSock' = s,
           sock'[s].status = "invalid", sock'[s].fd \in LinkTo,
           \A t \in Sockets : t # s => sock'[t] = sock[t],
           msClosed' = Cardinality({t \in Sockets : sock'[t].status = "closed"})
    PROVE  SlotsRight'
<1>1. PICK q \in Seq(Sockets) : FreeList(q)
  BY DEF MsInv, SlotsRight
<1>2. s \in Sockets /\ sock[s].status # "invalid" /\ s \notin lost
  BY DEF MsInv, SlotsRight, InService
<1> DEFINE r == <<s>> \o q
<1>3. /\ r \in Seq(Sockets) /\ r # <<>> /\ Len(r) = Len(q) + 1 /\ Len(q) \in Nat /\ r[1] = s
      /\ \A i \in 1 .. Len(q) : i + 1 \in 1 .. Len(r) /\ r[i + 1] = q[i] /\ q[i] \in Sockets
  BY <1>2
<1> HIDE DEF r
<1>4. \A j \in 1 .. Len(r) : j = 1 \/ (j - 1 \in 1 .. Len(q) /\ (j - 1) + 1 = j /\ r[j] = q[j - 1])
  <2>1. ASSUME NEW j \in 1 .. Len(r), j # 1 PROVE j - 1 \in 1 .. Len(q) /\ (j - 1) + 1 = j
    BY <1>3, <2>1
  <2>2. QED
    BY <1>3, <2>1
<1>5. \A i \in 1 .. Len(q) : q[i] # s
  BY <1>1, <1>2 DEF FreeList
<1>6. \A i, j \in 1 .. Len(r) : r[i] = r[j] => i = j
  <2>1. ASSUME NEW i \in 1 .. Len(r), NEW j \in 1 .. Len(r), r[i] = r[j] PROVE i = j
    <3>1. CASE i = 1
      BY <1>3, <1>4, <1>5, <2>1, <3>1
    <3>2. CASE j = 1
      BY <1>3, <1>4, <1>5, <2>1, <3>2
    <3>3. CASE i # 1 /\ j # 1
      <4>1. i - 1 = j - 1
        BY <1>1, <1>4, <2>1, <3>3 DEF FreeList
      <4>2. QED
        BY <1>4, <3>3, <4>1
    <3>4. QED
      BY <3>1, <3>2, <3>3
  <2>2. QED
    BY <2>1
<1>7. {r[i] : i \in 1 .. Len(r)} = {t \in Sockets : sock'[t].status = "invalid"} \ lost
  <2>1. {r[i] : i \in 1 .. Len(r)} = {q[i] : i \in 1 .. Len(q)} \cup {s}
    <3>1. 1 \in 1 .. Len(r) /\ r[1] = s
      BY <1>3
    <3>2. \A j \in 1 .. Len(r) : r[j] = s \/ \E i \in 1 .. Len(q) : r[j] = q[i]
      BY <1>3, <1>4
    <3>3. \A i \in 1 .. Len(q) : \E j \in 1 .. Len(r) : r[j] = q[i]
      BY <1>3
    <3>4. ASSUME NEW x \in {r[i] : i \in 1 .. Len(r)} PROVE x \in {q[i] : i \in 1 .. Len(q)} \cup {s}
      BY <3>2
    <3>5. ASSUME NEW x \in {q[i] : i \in 1 .. Len(q)} \cup {s} PROVE x \in {r[i] : i \in 1 .. Len(r)}
      BY <3>1, <3>3
    <3>6. QED
      BY <3>4, <3>5
  <2>2. {t \in Sockets : sock'[t].status = "invalid"} \ lost
            = ({t \in Sockets : sock[t].status = "invalid"} \ lost) \cup {s}
    BY <1>2
  <2>3. QED
    BY <1>1, <2>1, <2>2 DEF FreeList
<1>8. freeSock \in IF q = <<>> THEN {Null, Wild} ELSE {q[1]}
  BY <1>1 DEF FreeList
<1>9. sock'[s].fd \in IF q = <<>> THEN {Null, Wild} ELSE {q[1]}
  <2>1. q # <<>> => q[1] \in Sockets
    OBVIOUS
  <2>2. QED
    BY <1>8, <2>1, SizesAre DEF LinkTo
<1>10. ASSUME NEW j \in 1 .. Len(r) PROVE sock'[r[j]].fd \in IF j = Len(r) THEN {Null, Wild} ELSE {r[j + 1]}
  <2>1. CASE j = 1
    <3>1. CASE q = <<>>
      BY <1>3, <1>9, <2>1, <3>1
    <3>2. CASE q # <<>>
      <4>1. 1 \in 1 .. Len(q) /\ 1 # Len(r)
        BY <1>3, <3>2
      <4>2. r[1 + 1] = q[1]
        BY <1>3, <4>1
      <4>3. r[j] = s /\ j # Len(r) /\ r[j + 1] = q[1]
        BY <1>3, <2>1, <4>1, <4>2
      <4>4. QED
        BY <1>9, <3>2, <4>3
    <3>3. QED
      BY <3>1, <3>2
  <2>2. CASE j # 1
    <3>1. j - 1 \in 1 .. Len(q) /\ (j - 1) + 1 = j /\ r[j] = q[j - 1] /\ q[j - 1] \in Sockets /\ q[j - 1] # s
      BY <1>3, <1>4, <1>5, <2>2
    <3>2. sock[q[j - 1]].fd \in IF j - 1 = Len(q) THEN {Null, Wild} ELSE {q[j]}
      BY <1>1, <3>1 DEF FreeList
    <3>3. sock'[r[j]].fd \in IF j - 1 = Len(q) THEN {Null, Wild} ELSE {q[j]}
      BY <3>1, <3>2
    <3>4. j # Len(r) => j \in 1 .. Len(q) /\ r[j + 1] = q[j] /\ j - 1 # Len(q)
      BY <1>3, <2>2
    <3>5. j = Len(r) => j - 1 = Len(q)
      BY <1>3
    <3>6. QED
      BY <3>3, <3>4, <3>5
  <2>3. QED
    BY <2>1, <2>2
<1>11. FreeList(r)'
  BY <1>3, <1>6, <1>7, <1>10 DEF FreeList
<1>12. (\E t \in Sockets : sock'[t].fd = Wild) => full
  <2>1. sock'[s].fd = Wild => freeSock \notin Sockets
    BY SizesAre DEF LinkTo
  <2>2. QED
    BY <2>1 DEF MsInv, SlotsRight
<1>13. \A t \in lost : sock'[t].status = "invalid"
  BY <1>2 DEF MsInv, MsTypes, SlotsRight
<1>14. QED
  BY <1>2, <1>3, <1>11, <1>12, <1>13 DEF SlotsRight

\* What map_erase leaves.
LEMMA ErasedMap ==
    ASSUME MsInv, NEW s \in InService, table' = Erase(table, sock[s].fd), InService' = InService \ {s},
           \A t \in Sockets : t # s => sock'[t].fd = sock[t].fd, UNCHANGED chained
    PROVE  MapRight' /\ table' \in Tables
<1>1. PICK n \in Nodes : table[n].fd = sock[s].fd /\ table[n].id = s
  BY DEF MsInv, MapRight
<1>2. table \in Tables /\ Reachable(table) /\ OnceEach(table) /\ table[n].fd \in Fds
  BY <1>1 DEF MsInv, MsTypes, MapRight
<1>3. /\ table' \in Tables /\ table'[n].fd = NoFd
      /\ \A m \in Nodes : table'[m].next = table[m].next /\ (m # n => table'[m] = table[m])
      /\ Reachable(table') /\ OnceEach(table')
  BY <1>1, <1>2, EraseIs
<1>4. ASSUME NEW m \in Nodes, table'[m].fd # NoFd
      PROVE  table'[m].id \in InService' /\ sock'[table'[m].id].fd = table'[m].fd
  <2>1. m # n /\ table'[m] = table[m]
    BY <1>3, <1>4
  <2>2. table[m].id \in InService /\ sock[table[m].id].fd = table[m].fd /\ table[m].id \in Sockets
    BY <1>4, <2>1 DEF MsInv, MapRight, InService
  <2>3. table[m].id # s
    BY <1>1, <1>4, <2>1, <2>2 DEF MsInv, MapRight, OnceEach
  <2>4. QED
    BY <2>1, <2>2, <2>3
<1>5. ASSUME NEW t \in InService'
      PROVE  sock'[t].fd \in Fds /\ \E m \in Nodes : table'[m].fd = sock'[t].fd /\ table'[m].id = t
  <2>1. t \in InService /\ t # s /\ t \in Sockets
    BY <1>5 DEF InService
  <2>2. PICK m \in Nodes : table[m].fd = sock[t].fd /\ table[m].id = t
    BY <2>1 DEF MsInv, MapRight
  <2>3. m # n
    BY <1>1, <2>1, <2>2
  <2>4. sock[t].fd \in Fds
    BY <2>1 DEF MsInv, MapRight
  <2>5. QED
    BY <1>3, <2>1, <2>2, <2>3, <2>4
<1>6. ~chained' => \A m \in Nodes : table'[m].next = NoNode
  BY <1>3 DEF MsInv, MapRight
<1>7. QED
  BY <1>3, <1>4, <1>5, <1>6 DEF MapRight

\* What the close of a connection leaves: nobody has its descriptor, and its
\* senders are told or excused.
LEMMA ConnClosed ==
    ASSUME MsInv, NEW s \in Sockets, sock[s].status = "open", CloseConn(s),
           \A t \in Sockets : t # s => sock'[t] = sock[t],
           sock'[s].status = "invalid" \/ (sock'[s].status = "closed" /\ sock'[s].fd = sock[s].fd),
           sock'[s].flag = FALSE, UNCHANGED <<sender, place, history>>
    PROVE  /\ owner' \in [Fds -> Conns \cup {NoConn}] /\ conn' \in [Conns -> ConnStates]
           /\ OwnersRight' /\ SendersRight'
<1> DEFINE f == sock[s].fd
           c == owner[f]
<1>1. s \in InService /\ f \in Fds /\ c \in Conns
  BY ClientOf
<1>2. owner' = [owner EXCEPT ![f] = NoConn] /\ conn' = [conn EXCEPT ![c] = "gone"]
      /\ excused' = excused \cup Past(s)
  BY DEF CloseConn
<1>3. /\ owner' \in [Fds -> Conns \cup {NoConn}] /\ conn' \in [Conns -> ConnStates]
      /\ owner'[f] = NoConn /\ \A g \in Fds : g # f => owner'[g] = owner[g]
      /\ conn'[c] = "gone" /\ \A d \in Conns : d # c => conn'[d] = conn[d]
  BY <1>1, <1>2 DEF MsInv, MsTypes, ConnStates
<1>4. ASSUME NEW t \in InService, t # s PROVE sock[t].fd \in Fds /\ sock[t].fd # f
  BY <1>1, <1>4, FdsApart DEF MsInv, MapRight
<1> HIDE DEF f, c
<1>5. OwnersRight'
  <2>1. ASSUME NEW t \in InService' PROVE (sock'[t].status = "open") = (owner'[sock'[t].fd] # NoConn)
    <3>1. CASE t = s
      BY <1>3, <2>1, <3>1 DEF InService, f
    <3>2. CASE t # s
      <4>1. t \in InService /\ sock'[t] = sock[t]
        BY <2>1, <3>2 DEF InService
      <4>2. owner'[sock[t].fd] = owner[sock[t].fd]
        BY <1>3, <1>4, <3>2, <4>1
      <4>3. QED
        BY <4>1, <4>2 DEF MsInv, OwnersRight
    <3>3. QED
      BY <3>1, <3>2
  <2>2. ASSUME NEW g \in Fds, owner'[g] # NoConn PROVE \E t \in Sockets : sock'[t].status = "open" /\ sock'[t].fd = g
    <3>1. g # f /\ owner[g] # NoConn
      BY <1>3, <2>2
    <3>2. PICK t \in Sockets : sock[t].status = "open" /\ sock[t].fd = g
      BY <3>1 DEF MsInv, OwnersRight
    <3>3. QED
      BY <3>1, <3>2 DEF f
  <2>3. ASSUME NEW g \in Fds, NEW h \in Fds, owner'[g] # NoConn, owner'[g] = owner'[h] PROVE g = h
    BY <1>3, <2>3 DEF MsInv, OwnersRight
  <2>4. ASSUME NEW d \in Conns PROVE conn'[d] \in Alive <=> \E g \in Fds : owner'[g] = d
    <3>1. CASE d = c
      <4>1. \A g \in Fds : g # f => owner[g] # c
        BY <1>1, SocketsAssumption DEF MsInv, OwnersRight, c
      <4>2. \A g \in Fds : owner'[g] # c
        BY <1>1, <1>3, <4>1, SocketsAssumption
      <4>3. QED
        BY <1>3, <3>1, <4>2 DEF Alive
    <3>2. CASE d # c
      <4>1. (\E g \in Fds : owner'[g] = d) <=> (\E g \in Fds : owner[g] = d)
        BY <1>1, <1>3, <3>2, SocketsAssumption DEF c
      <4>2. QED
        BY <1>3, <3>2, <4>1 DEF MsInv, OwnersRight
    <3>3. QED
      BY <3>1, <3>2
  <2>5. QED
    BY <2>1, <2>2, <2>3, <2>4 DEF OwnersRight
<1>6. SendersRight'
  <2>1. ASSUME NEW d \in Conns, place[d] # Null, d \notin excused' PROVE Served(d)' \/ Told(d)'
    <3>1. place[d] \in Sockets /\ d \notin excused /\ (Served(d) \/ Told(d)) /\ UNCHANGED <<sender, place>>
      BY <1>2, <2>1 DEF MsInv, MsTypes, SendersRight
    <3>2. CASE place[d] = s
      BY <1>2, <2>1, <3>1, <3>2 DEF Past, Users, Told
    <3>3. CASE place[d] # s
      <4>1. sock'[place[d]] = sock[place[d]]
        BY <3>1, <3>3
      <4>2. Served(d) => owner'[sock[place[d]].fd] = owner[sock[place[d]].fd]
        BY <1>3, <1>4, <3>1, <3>3 DEF Served, InService
      <4>3. QED
        BY <3>1, <4>1, <4>2 DEF Served, Told
    <3>4. QED
      BY <3>2, <3>3
  <2>2. QED
    BY <2>1 DEF MsInv, SendersRight, history
<1>7. QED
  BY <1>3, <1>5, <1>6

LEMMA LinkIs == LinkTo \subseteq Sockets \cup {Null, Wild}
BY DEF LinkTo

LEMMA CloseActiveKeeps == ASSUME MsInv, at = "pull", CloseActive PROVE MsInv'
<1> DEFINE s == msActive
<1>1. s \in Sockets /\ sock[s].status = "open"
  BY DEF MsInv, MsTypes
<1>2. PICK f \in LinkTo : sock' = Given(Shut(s), s, f)
  BY DEF CloseActive
<1>3. /\ CloseConn(s) /\ freeSock' = s /\ table' = Erase(table, sock[s].fd)
      /\ msActive' = Null /\ at' = "poll" /\ UNCHANGED <<history, msClosed, queue, sender, place>>
  BY DEF CloseActive
<1>4. s \in InService /\ sock[s].fd \in Fds
  BY <1>1, ClientOf
<1> HIDE DEF s
<1>5. /\ sock'[s].status = "invalid" /\ sock'[s].fd = f /\ sock'[s].flag = FALSE
      /\ \A t \in Sockets : t # s => sock'[t] = sock[t]
      /\ sock' \in [Sockets -> Slots]
  <2>1. f \in Sockets \cup {Null, Wild}
    BY LinkIs
  <2> DEFINE v == [sock[s] EXCEPT !.status = "invalid", !.fd = f, !.flag = FALSE]
  <2>2. sock \in [Sockets -> Slots]
    BY DEF MsInv, MsTypes
  <2>3. v \in Slots /\ v.status = "invalid" /\ v.fd = f /\ v.flag = FALSE
    BY <1>1, <2>1, <2>2 DEF Slots
  <2>4. sock' = [sock EXCEPT ![s] = v]
    BY <1>1, <1>2, <2>2 DEF Given, Shut
  <2> HIDE DEF v
  <2>5. QED
    BY <1>1, <2>2, <2>3, <2>4
<1>6. InService' = InService \ {s}
  BY <1>5 DEF InService
<1>7. MapRight' /\ table' \in Tables
  BY <1>3, <1>4, <1>5, <1>6, ErasedMap DEF history
<1>8. SlotsRight'
  <2>1. {t \in Sockets : sock'[t].status = "closed"} = {t \in Sockets : sock[t].status = "closed"}
    BY <1>1, <1>5
  <2>2. msClosed' = Cardinality({t \in Sockets : sock'[t].status = "closed"})
    BY <1>3, <2>1 DEF MsInv, SlotsRight
  <2>3. QED
    BY <1>3, <1>4, <1>5, <2>2, SlotGiven DEF history
<1>9. owner' \in [Fds -> Conns \cup {NoConn}] /\ conn' \in [Conns -> ConnStates] /\ OwnersRight' /\ SendersRight'
  BY <1>1, <1>3, <1>5, ConnClosed
<1>10. MsTypes'
  BY <1>1, <1>3, <1>5, <1>7, <1>9 DEF MsInv, MsTypes, history
<1>11. StuckOnlyAfter'
  BY <1>3 DEF MsInv, StuckOnlyAfter, history
<1>12. QED
  BY <1>7, <1>8, <1>9, <1>10, <1>11 DEF MsInv

LEMMA CloseOtherKeeps ==
    ASSUME MsInv, NEW s \in Sockets, sock[s].status = "open", s # msActive, CloseConn(s), sock' = Shut(s),
           msClosed' = msClosed + 1,
           UNCHANGED <<history, freeSock, msActive, queue, table, at, sender, place>>
    PROVE  MsInv'
<1>1. /\ sock'[s].status = "closed" /\ sock'[s].fd = sock[s].fd /\ sock'[s].flag = FALSE
      /\ \A t \in Sockets : t # s => sock'[t] = sock[t]
      /\ sock' \in [Sockets -> Slots]
  <2> DEFINE v == [sock[s] EXCEPT !.status = "closed", !.flag = FALSE]
  <2>1. sock \in [Sockets -> Slots]
    BY DEF MsInv, MsTypes
  <2>2. v \in Slots /\ v.status = "closed" /\ v.fd = sock[s].fd /\ v.flag = FALSE
    BY <2>1 DEF Slots
  <2>3. sock' = [sock EXCEPT ![s] = v]
    BY <2>1 DEF Shut
  <2> HIDE DEF v
  <2>4. QED
    BY <2>1, <2>2, <2>3
<1>2. \A t \in Sockets : /\ sock'[t].fd = sock[t].fd
                         /\ sock'[t].status = "invalid" <=> sock[t].status = "invalid"
  BY <1>1
<1>3. InService' = InService
  BY <1>1 DEF InService
<1>4. MapRight'
  <2>1. \A t \in InService : t \in Sockets
    BY DEF InService
  <2>2. QED
    BY <1>2, <1>3, <2>1 DEF MsInv, MapRight, Reachable, OnceEach, history
<1>5. SlotsRight'
  <2>1. ASSUME NEW q \in Seq(Sockets), FreeList(q) PROVE FreeList(q)'
    <3>1. \A i \in 1 .. Len(q) : q[i] \in Sockets
      OBVIOUS
    <3>2. {t \in Sockets : sock'[t].status = "invalid"} = {t \in Sockets : sock[t].status = "invalid"}
      BY <1>2
    <3>3. UNCHANGED <<freeSock, lost>>
      BY DEF history
    <3>4. QED
      BY <1>2, <2>1, <3>1, <3>2, <3>3 DEF FreeList
  <2>2. msClosed' = Cardinality({t \in Sockets : sock'[t].status = "closed"})
    <3> DEFINE C == {t \in Sockets : sock[t].status = "closed"}
    <3>1. {t \in Sockets : sock'[t].status = "closed"} = C \cup {s} /\ s \notin C
      BY <1>1
    <3>2. IsFiniteSet(C)
      BY SocketsFinite, FS_Subset
    <3> HIDE DEF C
    <3>3. Cardinality(C \cup {s}) = Cardinality(C) + 1
      BY <3>1, <3>2, FS_AddElement
    <3>4. msClosed = Cardinality(C)
      BY DEF MsInv, SlotsRight, C
    <3>5. QED
      BY <3>1, <3>3, <3>4
  <2>3. \A t \in lost : sock'[t].status = "invalid"
    BY <1>2 DEF MsInv, MsTypes, SlotsRight
  <2>4. QED
    BY <1>2, <2>1, <2>2, <2>3 DEF MsInv, SlotsRight, history
<1>6. owner' \in [Fds -> Conns \cup {NoConn}] /\ conn' \in [Conns -> ConnStates] /\ OwnersRight' /\ SendersRight'
  BY <1>1, ConnClosed
<1>7. MsTypes'
  <2>1. at' = "pull" => msActive' \in Sockets /\ sock'[msActive'].status = "open"
    BY <1>1 DEF MsInv, MsTypes
  <2>2. msClosed' \in Nat
    BY DEF MsInv, MsTypes
  <2>3. QED
    BY <1>1, <1>6, <2>1, <2>2 DEF MsInv, MsTypes, history
<1>8. StuckOnlyAfter'
  BY DEF MsInv, StuckOnlyAfter, history
<1>9. QED
  BY <1>4, <1>5, <1>6, <1>7, <1>8 DEF MsInv

LEMMA PullEvictsKeeps == ASSUME MsInv, PullEvicts PROVE MsInv'
<1>1. at = "pull"
  BY DEF PullEvicts
<1>2. PICK s \in Sockets :
         /\ sock[s].status = "open"
         /\ IF s = msActive THEN CloseActive
            ELSE /\ CloseConn(s)
                 /\ sock' = Shut(s)
                 /\ msClosed' = msClosed + 1
                 /\ UNCHANGED <<history, freeSock, msActive, queue, table, at, sender, place>>
  BY DEF PullEvicts
<1>3. QED
  BY <1>1, <1>2, CloseActiveKeeps, CloseOtherKeeps

LEMMA ReportClosedKeeps == ASSUME MsInv, ReportClosed PROVE MsInv'
<1> DEFINE C == {t \in Sockets : sock[t].status = "closed"}
           s == Min(C)
<1>1. IsFiniteSet(C) /\ msClosed = Cardinality(C) /\ msClosed > 0
  BY SocketsFinite, FS_Subset DEF MsInv, SlotsRight, ReportClosed
<1>2. s \in C
  <2>1. C # {}
    BY <1>1, FS_EmptySet
  <2>2. C \in SUBSET Nat
    BY SizesAre
  <2> HIDE DEF C
  <2>3. QED
    BY <2>1, <2>2, LeastOf
<1>3. PICK f \in LinkTo : sock' = Given(sock, s, f)
  BY DEF ReportClosed
<1>4. /\ freeSock' = s /\ table' = Erase(table, sock[s].fd) /\ msClosed' = msClosed - 1
      /\ at = "poll" /\ UNCHANGED <<clients, threads, history, queue, at>>
  BY DEF ReportClosed
<1> HIDE DEF s
<1>5. s \in Sockets /\ sock[s].status = "closed" /\ s \in InService
  BY <1>2 DEF InService
<1>6. /\ sock'[s].status = "invalid" /\ sock'[s].fd = f /\ sock'[s].flag = sock[s].flag
      /\ \A t \in Sockets : t # s => sock'[t] = sock[t]
      /\ sock' \in [Sockets -> Slots]
  <2>1. f \in Sockets \cup {Null, Wild}
    BY LinkIs
  <2> DEFINE v == [sock[s] EXCEPT !.status = "invalid", !.fd = f]
  <2>2. sock \in [Sockets -> Slots]
    BY DEF MsInv, MsTypes
  <2>3. v \in Slots /\ v.status = "invalid" /\ v.fd = f /\ v.flag = sock[s].flag
    BY <1>5, <2>1, <2>2 DEF Slots
  <2>4. sock' = [sock EXCEPT ![s] = v]
    BY <1>3, <1>5, <2>2 DEF Given
  <2> HIDE DEF v
  <2>5. QED
    BY <1>5, <2>2, <2>3, <2>4
<1>7. InService' = InService \ {s}
  BY <1>6 DEF InService
<1>8. MapRight' /\ table' \in Tables
  BY <1>4, <1>5, <1>6, <1>7, ErasedMap DEF history
<1>9. msClosed' \in Nat /\ msClosed' = Cardinality({t \in Sockets : sock'[t].status = "closed"})
  <2>1. {t \in Sockets : sock'[t].status = "closed"} = C \ {s}
    BY <1>6
  <2> HIDE DEF C
  <2>2. Cardinality(C \ {s}) = Cardinality(C) - 1
    BY <1>1, <1>2, FS_RemoveElement
  <2>3. Cardinality(C) \in Nat
    BY <1>1, FS_CardinalityType
  <2>4. msClosed' \in Nat /\ msClosed' = Cardinality(C \ {s})
    BY <1>1, <1>4, <2>2, <2>3
  <2>5. QED
    BY <2>1, <2>4
<1>10. SlotsRight'
  BY <1>4, <1>5, <1>6, <1>9, SlotGiven DEF history
<1>11. MsTypes'
  BY <1>4, <1>5, <1>6, <1>8, <1>9 DEF MsInv, MsTypes, clients, threads, history
<1>12. OwnersRight'
  <2>1. ASSUME NEW t \in InService' PROVE (sock'[t].status = "open") = (owner'[sock'[t].fd] # NoConn)
    <3>1. t \in InService /\ sock'[t] = sock[t] /\ owner' = owner
      BY <1>4, <1>6, <1>7, <2>1 DEF InService, clients
    <3>2. QED
      BY <3>1 DEF MsInv, OwnersRight
  <2>2. ASSUME NEW g \in Fds, owner[g] # NoConn PROVE \E t \in Sockets : sock'[t].status = "open" /\ sock'[t].fd = g
    <3>1. PICK t \in Sockets : sock[t].status = "open" /\ sock[t].fd = g
      BY <2>2 DEF MsInv, OwnersRight
    <3>2. QED
      BY <1>5, <1>6, <3>1
  <2>3. QED
    BY <1>4, <2>1, <2>2 DEF MsInv, OwnersRight, clients
<1>13. SendersRight'
  <2>1. ASSUME NEW d \in Conns, place[d] \in Sockets, Served(d) \/ Told(d) PROVE Served(d)' \/ Told(d)'
    <3>1. UNCHANGED <<owner, sender, place>>
      BY <1>4 DEF clients, threads
    <3>2. CASE place[d] = s
      BY <1>5, <1>6, <2>1, <3>1, <3>2 DEF Served, Told
    <3>3. CASE place[d] # s
      BY <1>6, <2>1, <3>1, <3>3 DEF Served, Told
    <3>4. QED
      BY <3>2, <3>3
  <2>2. QED
    BY <1>4, <2>1 DEF MsInv, MsTypes, SendersRight, threads, history
<1>14. StuckOnlyAfter'
  BY <1>4 DEF MsInv, StuckOnlyAfter, history
<1>15. QED
  BY <1>8, <1>10, <1>11, <1>12, <1>13, <1>14 DEF MsInv

-----------------------------------------------------------------------------
(* What the invariant says of the map and the free list.                   *)

LEMMA MsNextKeeps == MsInv /\ [MsNext]_msVars => MsInv'
<1> SUFFICES ASSUME MsInv, [MsNext]_msVars PROVE MsInv'
  OBVIOUS
<1>1. CASE MainLoop
  <2>1. CASE PullEnd
    <3>1. at = "pull" /\ CloseActive
      BY <2>1 DEF PullEnd
    <3>2. QED
      BY <3>1, CloseActiveKeeps
  <2>2. QED
    BY <1>1, <2>1, ReadEventsKeeps, AcceptClientKeeps, PollClientKeeps, PullRequestKeeps, PullNothingKeeps,
       PullEvictsKeeps, ReportClosedKeeps DEF MainLoop
<1>2. ASSUME NEW c \in Conns, Connect(c) \/ HangUp(c) PROVE MsInv'
  BY <1>2, ConnectKeeps, HangUpKeeps
<1>3. ASSUME NEW c \in Conns, SendSize(c) \/ Look(c) \/ SendPiece(c) PROVE MsInv'
  <2>1. CASE SendSize(c)
    BY <2>1, WriteKeeps DEF SendSize
  <2>2. CASE SendPiece(c)
    BY <2>2, WriteKeeps DEF SendPiece
  <2>3. QED
    BY <1>3, <2>1, <2>2, LookKeeps
<1>4. CASE UNCHANGED msVars
  <2>1. UNCHANGED <<registry, clients, loopVars, threads, history>>
    BY <1>4 DEF msVars
  <2>2. MapRight' /\ SlotsRight' /\ SendersRight' /\ StuckOnlyAfter'
    BY <2>1, MapStays, SlotsStay, SendersStay, StuckStays DEF MsInv, registry, clients, loopVars, threads, history
  <2>3. MsTypes'
    BY <2>1 DEF MsInv, MsTypes, registry, clients, loopVars, threads, history
  <2>4. OwnersRight'
    BY <2>1 DEF MsInv, OwnersRight, InService, registry, clients
  <2>5. QED
    BY <2>2, <2>3, <2>4 DEF MsInv
<1>5. QED
  BY <1>1, <1>2, <1>3, <1>4 DEF MsNext

LEMMA MsAlways == MsSpec => []MsInv
<1>1. QED
  BY MsInitially, MsNextKeeps, PTL DEF MsSpec

LEMMA EventsFound == MsInv => ClientsFound
<1> SUFFICES ASSUME MsInv PROVE ClientsFound
  OBVIOUS
<1>1. ASSUME NEW s \in InService PROVE Search(table, sock[s].fd) = s
  <2>1. PICK n \in Nodes : table[n].fd = sock[s].fd /\ table[n].id = s /\ table[n].fd \in Fds
    BY DEF MsInv, MapRight
  <2>2. table \in Tables /\ Reachable(table) /\ OnceEach(table)
    BY DEF MsInv, MsTypes, MapRight
  <2>3. Search(table, table[n].fd) = table[n].id
    BY <2>1, <2>2, SearchFinds
  <2>4. QED
    BY <2>1, <2>3
<1>2. \A s \in InService : (sock[s].status = "open") = (owner[sock[s].fd] # NoConn)
  BY DEF MsInv, OwnersRight
<1>3. {table[n].fd : n \in Nodes} \ {NoFd} = {sock[s].fd : s \in InService}
  <2>1. \A n \in Nodes : table[n].fd # NoFd => \E s \in InService : table[n].fd = sock[s].fd
    BY DEF MsInv, MapRight
  <2>2. \A s \in InService : sock[s].fd # NoFd /\ \E n \in Nodes : table[n].fd = sock[s].fd
    BY SizesAre DEF MsInv, MapRight
  <2>3. QED
    BY <2>1, <2>2
<1>4. ASSUME NEW c \in Conns, conn[c] \in {"up", "ended", "reset"}
      PROVE  Cardinality({s \in Sockets : sock[s].status = "open" /\ owner[sock[s].fd] = c}) = 1
  <2>1. PICK f \in Fds : owner[f] = c
    BY <1>4 DEF MsInv, OwnersRight, Alive
  <2>2. c # NoConn
    BY SocketsAssumption
  <2>3. PICK s \in Sockets : sock[s].status = "open" /\ sock[s].fd = f
    BY <2>1, <2>2 DEF MsInv, OwnersRight
  <2>4. ASSUME NEW t \in Sockets, sock[t].status = "open", owner[sock[t].fd] = c PROVE t = s
    <3>1. sock[t].fd \in Fds /\ t \in InService /\ s \in InService
      BY <2>3, <2>4, ClientOf
    <3>2. sock[t].fd = f
      BY <2>1, <2>2, <2>4, <3>1 DEF MsInv, OwnersRight
    <3>3. QED
      BY <2>3, <3>1, <3>2, FdsApart DEF MsInv
  <2>5. {t \in Sockets : sock[t].status = "open" /\ owner[sock[t].fd] = c} = {s}
    BY <2>1, <2>3, <2>4
  <2>6. QED
    BY <2>5, FS_Singleton
<1>5. QED
  BY <1>1, <1>2, <1>3, <1>4 DEF ClientsFound

\* What a walk along the free list comes by.
FollowsList(h) ==
    h = [k \in Nat |-> IF k = 0 THEN freeSock ELSE IF h[k - 1] \in Sockets THEN sock[h[k - 1]].fd ELSE Null]

LEMMA FreeSlotsAre ==
    ASSUME NEW h, FollowsList(h)
    PROVE  FreeSlots = {h[k] : k \in 0 .. MaxConnection} \cap Sockets
<1> DEFINE a == CHOOSE x : x = [k \in Nat |-> IF k = 0 THEN freeSock
                                              ELSE IF x[k - 1] \in Sockets THEN sock[x[k - 1]].fd ELSE Null]
<1>1. a = [k \in Nat |-> IF k = 0 THEN freeSock ELSE IF a[k - 1] \in Sockets THEN sock[a[k - 1]].fd ELSE Null]
  BY DEF FollowsList
<1>2. FreeSlots = {a[k] : k \in 0 .. MaxConnection} \cap Sockets
  BY DEF FreeSlots
<1> HIDE DEF a
<1>3. \A k \in Nat : a[k] = h[k]
  <2> DEFINE T == {k \in Nat : a[k] = h[k]}
  <2>1. 0 \in T
    BY <1>1 DEF FollowsList
  <2>2. ASSUME NEW k \in Nat, k \in T PROVE k + 1 \in T
    <3>1. k + 1 \in Nat /\ k + 1 # 0 /\ (k + 1) - 1 = k
      OBVIOUS
    <3>2. a[k + 1] = IF a[k] \in Sockets THEN sock[a[k]].fd ELSE Null
      BY <1>1, <3>1
    <3>3. h[k + 1] = IF h[k] \in Sockets THEN sock[h[k]].fd ELSE Null
      BY <3>1 DEF FollowsList
    <3>4. QED
      BY <2>2, <3>2, <3>3
  <2>3. \A k \in Nat : k \in T
    <3> HIDE DEF T
    <3>1. QED
      BY <2>1, <2>2, AllNumbers
  <2>4. QED
    BY <2>3
<1>4. \A k \in 0 .. MaxConnection : k \in Nat
  BY SizesAre
<1>5. {a[k] : k \in 0 .. MaxConnection} = {h[k] : k \in 0 .. MaxConnection}
  BY <1>3, <1>4
<1>6. QED
  BY <1>2, <1>5

LEMMA FreeListShort ==
    ASSUME NEW q \in Seq(Sockets), FreeList(q)
    PROVE  Len(q) \in Nat /\ Len(q) <= MaxConnection
<1>1. Len(q) \in Nat /\ q \in [1 .. Len(q) -> Sockets]
  OBVIOUS
<1>2. q \in Injection(1 .. Len(q), Sockets)
  BY <1>1 DEF FreeList, Injection, IsInjective
<1>3. Cardinality(1 .. Len(q)) <= Cardinality(Sockets)
  BY <1>2, SocketsFinite, FS_Injection
<1>4. Cardinality(1 .. Len(q)) = Len(q)
  <2>1. 1 \in Int /\ Len(q) \in Int
    BY <1>1
  <2>2. Cardinality(1 .. Len(q)) = IF 1 > Len(q) THEN 0 ELSE Len(q) - 1 + 1
    BY <2>1, FS_Interval
  <2>3. QED
    BY <1>1, <2>2
<1>5. QED
  BY <1>1, <1>3, <1>4, SocketsFinite

LEMMA FreeListIs ==
    ASSUME MsTypes, NEW q \in Seq(Sockets), FreeList(q)
    PROVE  FreeSlots = {q[i] : i \in 1 .. Len(q)}
<1> DEFINE last == IF q = <<>> THEN freeSock ELSE sock[q[Len(q)]].fd
           h == [k \in Nat |-> IF k < Len(q) THEN q[k + 1] ELSE IF k = Len(q) THEN last ELSE Null]
<1>1. Len(q) \in Nat /\ Len(q) <= MaxConnection /\ MaxConnection \in Nat
  BY FreeListShort, SizesAre
<1>2. \A i \in 1 .. Len(q) : q[i] \in Sockets
  OBVIOUS
<1>3. \A i \in 1 .. Len(q) : sock[q[i]].fd \in IF i = Len(q) THEN {Null, Wild} ELSE {q[i + 1]}
  BY DEF FreeList
<1>4. freeSock \in IF q = <<>> THEN {Null, Wild} ELSE {q[1]}
  BY DEF FreeList
<1>5. last \notin Sockets
  <2>1. CASE q = <<>>
    BY <1>4, <2>1, SizesAre
  <2>2. CASE q # <<>>
    <3>1. Len(q) \in 1 .. Len(q)
      BY <1>1, <2>2
    <3>2. sock[q[Len(q)]].fd \in {Null, Wild}
      BY <1>3, <3>1
    <3>3. QED
      BY <2>2, <3>2, SizesAre
  <2>3. QED
    BY <2>1, <2>2
<1>6. ASSUME NEW k \in Nat
      PROVE  h[k] = IF k = 0 THEN freeSock ELSE IF h[k - 1] \in Sockets THEN sock[h[k - 1]].fd ELSE Null
  <2>1. CASE k = 0
    <3>1. CASE q = <<>>
      BY <2>1, <3>1
    <3>2. CASE q # <<>>
      <4>1. 0 < Len(q)
        BY <1>1, <3>2
      <4>2. h[k] = q[0 + 1]
        BY <2>1, <4>1
      <4>3. QED
        BY <1>4, <2>1, <3>2, <4>2
    <3>3. QED
      BY <3>1, <3>2
  <2>2. CASE k # 0 /\ k <= Len(q)
    <3>1. k - 1 \in Nat /\ k - 1 < Len(q) /\ (k - 1) + 1 = k /\ k \in 1 .. Len(q)
      BY <1>1, <2>2
    <3>2. h[k - 1] = q[k] /\ q[k] \in Sockets
      BY <1>2, <3>1
    <3>3. h[k] = sock[q[k]].fd
      <4>1. CASE k = Len(q)
        <5>1. q # <<>>
          BY <3>1
        <5>2. h[k] = last /\ last = sock[q[k]].fd
          BY <1>1, <4>1, <5>1
        <5>3. QED
          BY <5>2
      <4>2. CASE k # Len(q)
        <5>1. h[k] = q[k + 1]
          BY <1>1, <2>2, <4>2
        <5>2. sock[q[k]].fd = q[k + 1]
          BY <1>3, <3>1, <4>2
        <5>3. QED
          BY <5>1, <5>2
      <4>3. QED
        BY <4>1, <4>2
    <3> HIDE DEF h
    <3>4. QED
      BY <2>2, <3>2, <3>3
  <2>3. CASE k > Len(q)
    <3>1. k - 1 \in Nat /\ k # 0 /\ ~(k < Len(q)) /\ k # Len(q) /\ ~(k - 1 < Len(q))
      BY <1>1, <2>3
    <3>2. h[k] = Null
      BY <3>1
    <3>3. h[k - 1] \notin Sockets
      BY <1>5, <3>1, SizesAre
    <3> HIDE DEF h
    <3>4. QED
      BY <3>1, <3>2, <3>3
  <2>4. QED
    BY <1>1, <2>1, <2>2, <2>3
<1>7. FollowsList(h)
  BY <1>6 DEF FollowsList
<1>8. {h[k] : k \in 0 .. MaxConnection} \cap Sockets = {q[i] : i \in 1 .. Len(q)}
  <2>1. ASSUME NEW i \in 1 .. Len(q) PROVE \E k \in 0 .. MaxConnection : h[k] = q[i]
    <3>1. i - 1 \in 0 .. MaxConnection /\ i - 1 \in Nat /\ i - 1 < Len(q) /\ (i - 1) + 1 = i
      BY <1>1
    <3>2. h[i - 1] = q[i]
      BY <3>1
    <3>3. QED
      BY <3>1, <3>2
  <2>2. ASSUME NEW k \in 0 .. MaxConnection, h[k] \in Sockets PROVE \E i \in 1 .. Len(q) : h[k] = q[i]
    <3>1. k \in Nat
      BY <1>1
    <3>2. k < Len(q)
      BY <1>5, <2>2, <3>1, SizesAre
    <3>3. k + 1 \in 1 .. Len(q) /\ h[k] = q[k + 1]
      BY <1>1, <3>1, <3>2
    <3>4. QED
      BY <3>3
  <2> HIDE DEF h
  <2>3. QED
    BY <1>2, <2>1, <2>2
<1> HIDE DEF h
<1>9. QED
  BY <1>7, <1>8, FreeSlotsAre

LEMMA SlotsCounted == MsInv => SlotsKept
<1> SUFFICES ASSUME MsInv PROVE SlotsKept
  OBVIOUS
<1>1. PICK q \in Seq(Sockets) : FreeList(q)
  BY DEF MsInv, SlotsRight
<1>2. FreeSlots = {q[i] : i \in 1 .. Len(q)}
  BY <1>1, FreeListIs DEF MsInv
<1>3. FreeSlots = {s \in Sockets : sock[s].status = "invalid"} \ lost
  BY <1>1, <1>2 DEF FreeList
<1>4. QED
  BY <1>3 DEF MsInv, SlotsRight, SlotsKept

\* No sender writes to another client than the one that asked, but one whose own
\* client was closed after its last look at the flag, or whose slot was given to
\* the next client before it looked (send_file, mread_closed).
THEOREM WritesReachTheirClientHolds == MsSpec => []WritesReachTheirClient
<1>1. MsInv => WritesReachTheirClient
  BY DEF MsInv, SendersRight, WritesReachTheirClient
<1>2. QED
  BY <1>1, MsAlways, PTL

\* Whatever order connections come and go in: an event is found in the map for
\* the slot it is for, every slot is in use, free or lost to epoll_ctl, closed is
\* exact, and the server hangs in the map only after a bucket was shared
\* (map.c, mread_poll, mread_yield).
THEOREM ClientsKeptHolds == MsSpec => []ClientsKept
<1>1. MsInv => ClientsKept
  BY EventsFound, SlotsCounted DEF MsInv, ClientsKept
<1>2. QED
  BY <1>1, MsAlways, PTL

=============================================================================
