------------------------------ MODULE Sorting ------------------------------
(***************************************************************************)
(* The seven sorting functions, each with the order that its caller        *)
(* passes.  An element is <<key, its first index>>, so that equal keys can *)
(* still be told apart; indices are those of the code plus one.            *)
(***************************************************************************)
EXTENDS Integers, Sequences, SequencesExt, FiniteSetsExt

CONSTANTS SortKeys, SortLength

ASSUME SortAssumption == SortKeys \subseteq Int /\ SortLength \in Nat

VARIABLES
    data,       \* the array
    given,      \* history: the array before it was sorted
    sortedBy    \* the function that has sorted it

soVars == <<data, given, sortedBy>>

Trap == <<"trap">>

f(a, b) == a[1] < b[1]
Swapped(d, i, j) == [d EXCEPT ![i] = d[j], ![j] = d[i]]
Up(a, b) == [k \in 1 .. b - a + 1 |-> a + k - 1]
Down(a, b) == Reverse(Up(b, a))

SoInit == data = <<>> /\ given = <<>> /\ sortedBy = "nothing"

TakeArray ==
    /\ data = <<>>
    /\ \E n \in 1 .. SortLength : \E keys \in [1 .. n -> SortKeys] : data' = [i \in 1 .. n |-> <<keys[i], i>>]
    /\ given' = data' /\ UNCHANGED sortedBy

-----------------------------------------------------------------------------
BubbleSort(d) ==
    LET Bubble(a, j) == IF f(a[j], a[j - 1]) THEN Swapped(a, j, j - 1) ELSE a
    IN FoldLeft(LAMBDA a, i : FoldLeft(Bubble, a, Down(Len(d), i + 1)), d, Up(1, Len(d) - 1))

SelectionSort(d) ==
    LET Least(a, i) == FoldLeft(LAMBDA k, j : IF f(a[j], a[k]) THEN j ELSE k, i, Up(i + 1, Len(d)))
    IN FoldLeft(LAMBDA a, i : Swapped(a, i, Least(a, i)), d, Up(1, Len(d) - 1))

\* temp < data[k - h].  (A slip: not data[k - h] < temp.)
PassesEqual(temp, d) == ~f(d, temp)
Passes(temp, d) == f(temp, d)

\* The element at j goes back, h places at a time, over those that are greater.
Inserted(d, j, h) ==
    LET k == Max({m \in 1 .. j : (j - m) % h = 0 /\ (m - h < 1 \/ ~Passes(d[j], d[m - h]))})
    IN [i \in DOMAIN d |-> IF i = k THEN d[j]
                           ELSE IF i \in k .. j /\ (j - i) % h = 0 THEN d[i - h] ELSE d[i]]

InsertionSort(d) == FoldLeft(LAMBDA a, j : Inserted(a, j, 1), d, Up(2, Len(d)))

\* array[i] and its length: the distances 1, 4, 13 ... below the size.
Distance[i \in Nat] == IF i = 0 THEN 1 ELSE 3 * Distance[i - 1] + 1
Distances(n) == Cardinality({i \in 0 .. n : Distance[i] < n})

ShellSort(d) ==
    LET Column(a, c, h) == FoldLeft(LAMBDA b, m : Inserted(b, c + m * h, h), a, Up(0, (Len(d) - c) \div h))
        Pass(a, h) == FoldLeft(LAMBDA b, c : Column(b, c, h), a, Up(h + 1, Min({2 * h, Len(d)})))
    IN FoldLeft(LAMBDA a, i : Pass(a, Distance[i]), d, Down(Distances(Len(d)) - 1, 0))

\* std::merge: of equal elements the left one comes first.
RECURSIVE Merge(_, _)
Merge(l, r) ==
    IF l = <<>> THEN r
    ELSE IF r = <<>> THEN l
    ELSE IF f(Head(r), Head(l)) THEN <<Head(r)>> \o Merge(l, Tail(r))
    ELSE <<Head(l)>> \o Merge(Tail(l), r)

RECURSIVE MergeSort(_)
MergeSort(d) ==
    LET mid == Len(d) \div 2
    IN IF Len(d) > 1 THEN Merge(MergeSort(SubSeq(d, 1, mid)), MergeSort(SubSeq(d, mid + 1, Len(d)))) ELSE d

RECURSIVE heap_down(_, _, _)
heap_down(d, i, size) ==
    LET left == 2 * i
        p == IF left < size /\ f(d[left], d[left + 1]) THEN left + 1 ELSE left
    IN IF left > size \/ ~f(d[i], d[p]) THEN d ELSE heap_down(Swapped(d, p, i), p, size)

HeapSort(d) ==
    LET heap == FoldLeft(LAMBDA a, i : heap_down(a, i, Len(d)), d, Down(((Len(d) - 1) \div 2) + 1, 1))
    IN FoldLeft(LAMBDA a, i : heap_down(Swapped(a, 1, i), 1, i - 1), heap, Down(Len(d), 2))

-----------------------------------------------------------------------------
(* quick_sort: the bounds move towards each other; no test keeps lower in  *)
(* the array, but an element that is not less stands behind every part.    *)
RECURSIVE Partition(_, _, _, _)
Partition(d, lower, upper, bound) ==
    IF lower > upper THEN <<d, upper>>
    ELSE LET l == Min({k \in lower .. Len(d) : ~f(d[k], bound)})
             u == Max({k \in 1 .. upper : ~f(bound, d[k])})
         IN IF l < u THEN Partition(Swapped(d, l, u), l + 1, u - 1, bound)
                     ELSE Partition(d, l + 1, u, bound)

\* The arrays that it may leave: rand() chooses the bound.  The remainder of
\* a division by zero, when there is one element, is a trap.
RECURSIVE quick_sort(_, _, _)
quick_sort(d, first, last) ==
    IF first = last THEN {Trap}
    ELSE UNION {LET s == Swapped(d, first, t)
                    part == Partition(s, first + 1, last, s[first])
                    upper == part[2]
                    a == Swapped(part[1], upper, first)
                    lefts == IF first < upper - 1 THEN quick_sort(a, first, upper - 1) ELSE {a}
                IN UNION {IF upper + 1 < last THEN quick_sort(b, upper + 1, last) ELSE {b} : b \in lefts} :
                   t \in first .. last - 1}

\* The greatest goes to the end first.
QuickSort(d) ==
    LET max == FoldLeft(LAMBDA k, i : IF f(d[k], d[i]) THEN i ELSE k, 1, Up(2, Len(d)))
    IN IF Len(d) < 2 THEN {d} ELSE quick_sort(Swapped(d, max, Len(d)), 1, Len(d) - 1)

-----------------------------------------------------------------------------
Sort(name, results) == data # <<>> /\ sortedBy' = name /\ data' \in results /\ UNCHANGED given

SoNext ==
    /\ sortedBy = "nothing"
    /\ \/ TakeArray
       \/ Sort("bubble", {BubbleSort(data)})
       \/ Sort("selection", {SelectionSort(data)})
       \/ Sort("insertion", {InsertionSort(data)})
       \/ Sort("shell", {ShellSort(data)})
       \/ Sort("merge", {MergeSort(data)})
       \/ Sort("heap", {HeapSort(data)})
       \/ Sort("quick", QuickSort(data))

SoSpec == SoInit /\ [][SoNext]_soVars

-----------------------------------------------------------------------------
\* Every function leaves the elements it was given in order, and three of them
\* leave equal elements in the order they had; but quick_sort, which divides by
\* last - first (line 104), cannot take an array of two.
SortsRight ==
    LET Ordered == \A i \in 1 .. Len(data) - 1 : ~f(data[i + 1], data[i])
        Kept == Len(data) = Len(given) /\ ToSet(data) = ToSet(given)
        Stable == \A i, j \in DOMAIN data : i < j /\ data[i][1] = data[j][1] => data[i][2] < data[j][2]
    IN /\ sortedBy # "nothing" => IF sortedBy = "quick" /\ Len(given) = 2 THEN data = Trap ELSE Ordered /\ Kept
       /\ sortedBy \in {"bubble", "insertion", "merge"} => Stable
=============================================================================
