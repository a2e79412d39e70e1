----------------------------- MODULE Containers -----------------------------
(***************************************************************************)
(* The containers of acm-lib beside the search tree: Heap, the two hash    *)
(* sets, the segment tree and the disjoint sets.  A behaviour    *)
(* uses one of them.                                                       *)
(***************************************************************************)
EXTENDS Integers, Sequences, SequencesExt, FiniteSets, FiniteSetsExt

CONSTANTS
    Items,        \* the keys that are stored
    HeapSize,     \* max_size of the heap
    TableSize,    \* m_nSize of the hash sets
    RightEnd,     \* the segment tree stands for 0 .. RightEnd
    Points,       \* the members of the disjoint sets are 1 .. Points
    MaxCalls      \* calls that are looked at

ASSUME ContainersAssumption ==
    Items \subseteq Nat /\ {HeapSize, TableSize, RightEnd, Points} \subseteq Nat \ {0} /\ MaxCalls \in Nat

VARIABLES
    kind,                   \* the container that is used
    heap, deleted,          \* m_pdata up to curr_size; what deleteItem returned last
    table, chains,          \* OpenAddressPolicy and OverflowChainPolicy
    cover,                  \* of every node of the segment tree
    v, rank,                \* parents and ranks of the disjoint sets
    held                    \* history: the calls whose effect should be there

Empty == -1                 \* no key

-----------------------------------------------------------------------------
(* Heap, with std::less.                                                   *)

RECURSIVE FilterUp(_, _)
FilterUp(h, i) ==
    LET p == i \div 2
    IN IF i = 1 \/ h[i] >= h[p] THEN h ELSE FilterUp([h EXCEPT ![p] = h[i], ![i] = h[p]], p)

RECURSIVE FilterDown(_, _)
FilterDown(h, i) ==
    LET left == 2 * i
        c == IF left < Len(h) /\ h[left + 1] < h[left] THEN left + 1 ELSE left
    IN IF left > Len(h) \/ h[i] < h[c] THEN h ELSE FilterDown([h EXCEPT ![c] = h[i], ![i] = h[c]], c)

\* A full heap takes nothing.
HeapInsert(k) ==
    /\ heap' = IF Len(heap) = HeapSize THEN heap ELSE FilterUp(Append(heap, k), Len(heap) + 1)
    /\ held' = IF Len(heap) = HeapSize THEN held ELSE Append(held, k)
    /\ deleted' = Empty

\* The last item goes to the root and down.
HeapDelete ==
    /\ heap # <<>>
    /\ deleted' = heap[1]
    /\ heap' = IF Len(heap) = 1 THEN <<>> ELSE FilterDown([Front(heap) EXCEPT ![1] = Last(heap)], 1)
    /\ held' = RemoveFirst(held, deleted')

HeapNext == HeapDelete \/ \E k \in Items : HeapInsert(k)

-----------------------------------------------------------------------------
(* Hash sets; the hash is the remainder, as in main.cpp.                   *)

Hash(k) == k % TableSize

\* Where Insert and Lookup look after a collision: behind pos, then before it.
Probes(pos) == [n \in 1 .. TableSize |-> (pos + n - 1) % TableSize]
Free(t, pos) == {n \in 1 .. TableSize : t[Probes(pos)[n]] = Empty}

OpenInsert(t, k) == IF Free(t, Hash(k)) = {} THEN t ELSE [t EXCEPT ![Probes(Hash(k))[Min(Free(t, Hash(k)))]] = k]
OpenLookup(t, k) ==
    \E n \in 1 .. TableSize : t[Probes(Hash(k))[n]] = k /\ \A j \in Free(t, Hash(k)) : n < j

OpenClear(t) == [n \in DOMAIN t |-> Empty]
ChainClear(c) == [n \in DOMAIN c |-> <<>>]
ChainInsert(c, k) == [c EXCEPT ![Hash(k)] = <<k>> \o @]
ChainLookup(c, k) == k \in ToSet(c[Hash(k)])

HashInsert(k) ==
    /\ table' = OpenInsert(table, k)
    /\ chains' = ChainInsert(chains, k)
    /\ held' = Append(held, k)

HashClear ==
    /\ held # <<>> /\ held' = <<>>
    /\ table' = OpenClear(table) /\ chains' = ChainClear(chains)

HashNext == HashClear \/ \E k \in Items : HashInsert(k)

OpenCount == Cardinality({n \in DOMAIN table : table[n] # Empty})
ChainCount == FoldFunction(LAMBDA c, n : Len(c) + n, 0, chains)

-----------------------------------------------------------------------------
(* The segment tree; a node is known by its ends.                          *)

RECURSIVE Create(_, _)
Create(l, r) ==
    LET mid == (l + r) \div 2
    IN {<<l, r>>} \cup (IF l + 1 = r THEN {} ELSE Create(l, mid) \cup Create(mid, r))

\* Insert and Delete: d more covers for l .. r, from the node n down.
RECURSIVE Covered(_, _, _, _, _)
Covered(c, n, l, r, d) ==
    LET mid == (n[1] + n[2]) \div 2
        leftHalf == <<n[1], mid>>
        rightHalf == <<mid, n[2]>>
    IN IF n = <<l, r>> THEN [c EXCEPT ![n] = @ + d]
       ELSE IF n[1] + 1 = n[2] THEN c
       ELSE IF r <= mid THEN Covered(c, leftHalf, l, r, d)
       ELSE IF l >= mid THEN Covered(c, rightHalf, l, r, d)
       ELSE Covered(Covered(c, leftHalf, l, mid, d), rightHalf, mid, r, d)

Segments == {s \in (0 .. RightEnd) \X (0 .. RightEnd) : s[1] < s[2]}
SegmentInsert(s) == cover' = Covered(cover, <<0, RightEnd>>, s[1], s[2], 1) /\ held' = Append(held, s)
SegmentDelete(s) == cover' = Covered(cover, <<0, RightEnd>>, s[1], s[2], -1) /\ held' = RemoveFirst(held, s)

SegmentNext == \E s \in Segments : SegmentInsert(s) \/ (s \in ToSet(held) /\ SegmentDelete(s))

-----------------------------------------------------------------------------
(* Disjoint sets: find shortens the way, judge joins two sets.             *)

RECURSIVE Root(_, _)
Root(w, p) == IF w[p] = p THEN p ELSE Root(w, w[p])
RECURSIVE Way(_, _)
Way(w, p) == {p} \cup (IF w[p] = p THEN {} ELSE Way(w, w[p]))
find(w, p) == [q \in DOMAIN w |-> IF q \in Way(w, p) THEN Root(w, p) ELSE w[q]]

\* fa goes below fb.  (A slip: only the member a does.)
MemberLowered(w, a, fa, fb) == [w EXCEPT ![a] = w[fb]]
Lowered(w, a, fa, fb) == [w EXCEPT ![fa] = w[fb]]

\* The test of line 59 is an assignment: rank[fa] = rank[fb].
judge(a, b) ==
    LET w == find(find(v, a), b)
        fa == w[a]
        fb == w[b]
    IN /\ held' = Append(held, <<a, b>>)
       /\ IF fa = fb THEN v' = w /\ rank' = rank
          ELSE IF rank[fa] > rank[fb] THEN v' = [w EXCEPT ![fb] = fa] /\ rank' = rank
          ELSE /\ v' = Lowered(w, a, fa, fb)
               /\ rank' = [rank EXCEPT ![fa] = rank[fb], ![fb] = IF rank[fb] # 0 THEN @ + 1 ELSE @]

UnionNext == \E a, b \in 1 .. Points : judge(a, b)

-----------------------------------------------------------------------------
coVars == <<kind, heap, deleted, table, chains, cover, v, rank, held>>

CoInit ==
    /\ kind \in {"heap", "hash", "segment", "union"}
    /\ heap = <<>> /\ deleted = Empty /\ held = <<>>
    /\ table = [n \in 0 .. TableSize - 1 |-> Empty] /\ chains = [n \in 0 .. TableSize - 1 |-> <<>>]
    /\ cover = [n \in Create(0, RightEnd) |-> 0]
    /\ v = [p \in 1 .. Points |-> p] /\ rank = [p \in 1 .. Points |-> 0]

\* MaxCalls bounds the calls that are in effect.
CoNext ==
    /\ UNCHANGED kind
    /\ \/ kind = "heap" /\ HeapNext /\ UNCHANGED <<table, chains, cover, v, rank>>
       \/ kind = "hash" /\ HashNext /\ UNCHANGED <<heap, deleted, cover, v, rank>>
       \/ kind = "segment" /\ SegmentNext /\ UNCHANGED <<heap, deleted, table, chains, v, rank>>
       \/ kind = "union" /\ UnionNext /\ UNCHANGED <<heap, deleted, table, chains, cover>>
    /\ Len(held') <= MaxCalls

CoSpec == CoInit /\ [][CoNext]_coVars

-----------------------------------------------------------------------------
Count(k) == Cardinality({i \in DOMAIN held : held[i] = k})
Within(i, n) == n[1] <= i /\ i < n[2]
CoverOf(i) == FoldFunctionOnSet(LAMBDA a, b : a + b, 0, cover, {n \in DOMAIN cover : Within(i, n)})

\* The members that the calls of judge have put together with p.
Joined == FoldLeft(LAMBDA sets, e : {s \in sets : e[1] \notin s /\ e[2] \notin s} \cup {UNION {s \in sets : {e[1], e[2]} \cap s # {}}},
                   {{p} : p \in 1 .. Points}, held)

HeapGivesLeast ==
    /\ \A k \in Items : Count(k) = Cardinality({i \in DOMAIN heap : heap[i] = k})
    /\ \A i \in DOMAIN heap : heap[1] <= heap[i] /\ deleted <= heap[i]

\* What is stored is found, and nothing else, although Lookup stops at the
\* first free place; a full table takes no more; equal keys are counted again.
HashFindsStored ==
    /\ \A k \in Items : ChainLookup(chains, k) = (k \in ToSet(held))
    /\ ChainCount = Len(held)
    /\ \A k \in Items : OpenLookup(table, k) = \E i \in DOMAIN held : i <= TableSize /\ held[i] = k
    /\ OpenCount = Min({Len(held), TableSize})

\* Over every unit of length lie as many segments as were put there.
CoverExact ==
    \A i \in 0 .. RightEnd - 1 : CoverOf(i) = Cardinality({j \in DOMAIN held : Within(i, held[j])})

\* Two members have one root when the calls connect them; every way ends, for
\* all that rank stays 0.
SetsAreJoined ==
    /\ \A a, b \in 1 .. Points : (Root(v, a) = Root(v, b)) = (\E s \in Joined : {a, b} \subseteq s)
    /\ \A p \in 1 .. Points : rank[p] = 0

\* Each container holds what the calls have put there, in its own terms.
ContainersExact ==
    CASE kind = "heap" -> HeapGivesLeast
      [] kind = "hash" -> HashFindsStored
      [] kind = "segment" -> CoverExact
      [] kind = "union" -> SetsAreJoined
=============================================================================
