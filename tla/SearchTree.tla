----------------------------- MODULE SearchTree -----------------------------
(***************************************************************************)
(* BinarySearchTree: nodes linked to their children and their parent,      *)
(* below a dummy whose left child is the root.  Deleting trusts the        *)
(* parent field, which is wrong for the root of a copied tree and for a    *)
(* node that has taken the place of its grandparent or a node further up.  *)
(***************************************************************************)
EXTENDS Integers, Sequences, FiniteSets

CONSTANTS Keys, Values

ASSUME TreeAssumption == Keys \subseteq Nat \ {0}

Dummy == 0
Null  == -1
Nodes == Keys \cup {Dummy}       \* a node is known by its key

VARIABLES
    left, right, parent, value,
    items,       \* history: the map that the calls describe
    placed,      \* history: nodes whose parent field was set wrongly
    misled       \* history: a wrong parent field was followed

stVars == <<left, right, parent, value, items, placed, misled>>

StInit ==
    /\ left = [n \in Nodes |-> Null] /\ right = left /\ parent = left
    /\ value = [k \in Keys |-> Null]
    /\ items = <<>> /\ placed = {} /\ misled = FALSE

Below(n, k) == IF n < k THEN right[n] ELSE left[n]

\* The node with key k, or Null, and the last node before it.
RECURSIVE Descend(_, _, _)
Descend(n, p, k) == IF n \in {Null, k} THEN <<n, p>> ELSE Descend(Below(n, k), n, k)
Search(k) == Descend(left[Dummy], Dummy, k)

RECURSIVE Rightmost(_)
Rightmost(n) == IF right[n] = Null THEN n ELSE Rightmost(right[n])

RECURSIVE InOrder(_)
InOrder(n) == IF n = Null THEN <<>> ELSE InOrder(left[n]) \o <<n>> \o InOrder(right[n])

RECURSIVE SubTree(_)
SubTree(n) == IF n = Null THEN {} ELSE {n} \cup SubTree(left[n]) \cup SubTree(right[n])

-----------------------------------------------------------------------------
InsertItem(k, v) ==
    LET found == Search(k)
        p == found[2]
    IN /\ value' = [value EXCEPT ![k] = v]
       /\ items' = [i \in DOMAIN items \cup {k} |-> IF i = k THEN v ELSE items[i]]
       /\ IF found[1] = k THEN UNCHANGED <<left, right, parent>>
          ELSE /\ IF p # Dummy /\ p < k
                    THEN right' = [right EXCEPT ![p] = k, ![k] = Null] /\ left' = [left EXCEPT ![k] = Null]
                    ELSE left' = [left EXCEPT ![p] = k, ![k] = Null] /\ right' = [right EXCEPT ![k] = Null]
               /\ parent' = [parent EXCEPT ![k] = p]
       /\ UNCHANGED <<placed, misled>>

\* parent->left or parent->right, whichever was n, becomes m.
Hung(l, p, n, m) == IF left[p] = n THEN [l EXCEPT ![p] = m] ELSE l
HungR(r, p, n, m) == IF left[p] = n THEN r ELSE [r EXCEPT ![p] = m]

\* The greatest node gives what it had on its left to its parent.
GivesLeft(r, pp, g) == [r EXCEPT ![pp] = left[g]]

\* A child, if there is one, gets a new parent.  (A slip: it keeps the old one.)
KeepsParent(f, m, q) == f
SetParent(f, m, q) == IF m = Null THEN f ELSE [f EXCEPT ![m] = q]

\* A node with two children is replaced by the greatest on its left, whose
\* parent becomes the dummy unless it was a child.
DeleteItem(k) ==
    LET n == Search(k)[1]
        p == parent[n]
        g == Rightmost(left[n])          \* pleft
        pp == parent[g]
        c == IF left[n] # Null THEN left[n] ELSE right[n]
    IN /\ n # Null
       /\ items' = [i \in DOMAIN items \ {k} |-> items[i]]
       /\ IF p = Null
            THEN misled' = TRUE /\ UNCHANGED <<left, right, parent, placed>>
          ELSE IF left[n] = Null \/ right[n] = Null
            THEN /\ left' = Hung(left, p, n, c) /\ right' = HungR(right, p, n, c)
                 /\ parent' = SetParent(parent, c, p)
                 /\ misled' = (n \in placed)
                 /\ placed' = (placed \ {n}) \cup (IF misled' THEN {c} \ {Null} ELSE {})
          ELSE IF g = left[n]
            THEN /\ left' = Hung(left, p, n, g)
                 /\ right' = [HungR(right, p, n, g) EXCEPT ![g] = right[n]]
                 /\ parent' = [parent EXCEPT ![right[n]] = g, ![g] = p]
                 /\ misled' = (n \in placed)
                 /\ placed' = placed \ {n, g}
            ELSE /\ left' = [Hung(left, p, n, g) EXCEPT ![g] = left[n]]
                 /\ right' = [GivesLeft(HungR(right, p, n, g), pp, g) EXCEPT ![g] = right[n]]
                 /\ parent' = [SetParent(parent, left[g], pp) EXCEPT ![right[n]] = g, ![left[n]] = g, ![g] = Dummy]
                 /\ misled' = (n \in placed \/ g \in placed)
                 /\ placed' = (placed \ {n}) \cup (IF p = Dummy THEN {} ELSE {g})
       /\ UNCHANGED value

\* DeleteSubTree of the node with key k.
DeleteSubTree(k) ==
    LET n == Search(k)[1]
        p == parent[n]
    IN /\ n # Null
       /\ items' = [i \in DOMAIN items \ SubTree(n) |-> items[i]]
       /\ misled' = (n \in placed)
       /\ IF p = Null THEN UNCHANGED <<left, right>>      \* nothing is unlinked
                      ELSE left' = Hung(left, p, n, Null) /\ right' = HungR(right, p, n, Null)
       /\ placed' = placed \ SubTree(n)
       /\ UNCHANGED <<parent, value>>

\* The copy constructor and operator=: every node is made anew with its
\* children, and the root is given no parent.
Copy ==
    LET nodes == SubTree(left[Dummy])
        Above(n) == {q \in nodes : n \in {left[q], right[q]}}
    IN /\ nodes # {}
       /\ parent' = [n \in Nodes |-> IF n \in nodes /\ Above(n) # {} THEN CHOOSE q \in Above(n) : TRUE ELSE Null]
       /\ placed' = {left[Dummy]}
       /\ UNCHANGED <<left, right, value, items, misled>>

StNext ==
    /\ ~misled
    /\ \/ \E k \in Keys : DeleteItem(k) \/ DeleteSubTree(k) \/ \E v \in Values : InsertItem(k, v)
       \/ Copy

StSpec == StInit /\ [][StNext]_stVars

-----------------------------------------------------------------------------
\* The tree is the map that the calls describe, in the order of its keys,
\* until a deletion has followed a wrong parent field.
StIsMap ==
    ~misled =>
        LET keys == InOrder(left[Dummy])
        IN /\ {keys[i] : i \in DOMAIN keys} = DOMAIN items /\ Len(keys) = Cardinality(DOMAIN items)
           /\ \A i, j \in DOMAIN keys : i < j => keys[i] < keys[j]
           /\ \A k \in DOMAIN items : Search(k)[1] = k /\ value[k] = items[k]

\* The parent fields are right, except for the root of a copy (line 299) and
\* a node that a deletion has moved up from a lower level (line 578).
StParentsRight ==
    ~misled =>
        \A n \in SubTree(left[Dummy]) \ placed :
            parent[n] = IF n = left[Dummy] THEN Dummy ELSE CHOOSE q \in Keys : n \in {left[q], right[q]} /\ q \in SubTree(left[Dummy])

\* The tree that the calls describe, with the links to go up in it.
TreeRight == StIsMap /\ StParentsRight
=============================================================================
