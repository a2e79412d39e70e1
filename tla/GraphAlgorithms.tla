-------------------------- MODULE GraphAlgorithms --------------------------
(***************************************************************************)
(* The graph programs of acm-lib.  A graph is its matrix of weights, with  *)
(* 0 (MAX in some programs) where there is no edge; a program is one step  *)
(* from the graph to its answer.  Loops that take the first of several     *)
(* equal edges take the first here too; a priority queue takes any.        *)
(***************************************************************************)
EXTENDS Integers, Sequences, SequencesExt, FiniteSets, FiniteSetsExt

CONSTANTS
    Size,          \* vertices of the undirected graphs and of the acyclic ones
    DirectedSize,  \* vertices of the directed graphs
    MaxWeight

ASSUME GraphAssumption == Size \in Nat \ {0} /\ DirectedSize \in Nat \ {0} /\ MaxWeight \in Nat \ {0}

VARIABLES graph, shape, program, answer

grVars == <<graph, shape, program, answer>>

Vertices == {e[1] : e \in DOMAIN graph}
N == Cardinality(Vertices)
InOrderOf(n) == [k \in 1 .. n |-> k - 1]
Order == InOrderOf(N)
Edge(u, w) == graph[<<u, w>>] # 0
Edges == {e \in DOMAIN graph : graph[e] # 0}
Pairs(n) == (0 .. n - 1) \X (0 .. n - 1)
FirstPair(pairs) == CHOOSE e \in pairs : \A d \in pairs : e[1] < d[1] \/ (e[1] = d[1] /\ e[2] <= d[2])

SymmetricGraphs ==
    LET above == {e \in Pairs(Size) : e[1] < e[2]}
    IN {[e \in Pairs(Size) |-> IF e[1] = e[2] THEN 0 ELSE IF e[1] < e[2] THEN w[e] ELSE w[<<e[2], e[1]>>]] :
        w \in [above -> 0 .. MaxWeight]}
AcyclicGraphs == {[e \in Pairs(Size) |-> IF e[1] < e[2] THEN w[e] ELSE 0] :
                  w \in [{e \in Pairs(Size) : e[1] < e[2]} -> 0 .. MaxWeight]}
\* Weights may be negative; only spfa is meant for those.
DirectedGraphs == {[e \in Pairs(DirectedSize) |-> IF e[1] = e[2] THEN 0 ELSE w[e]] :
                   w \in [{e \in Pairs(DirectedSize) : e[1] # e[2]} -> -1 .. MaxWeight]}

GrInit == shape = "none" /\ graph = <<>> /\ program = "none" /\ answer = <<>>

TakeGraph ==
    /\ shape = "none"
    /\ \/ shape' = "symmetric" /\ graph' \in SymmetricGraphs
       \/ shape' = "acyclic" /\ graph' \in AcyclicGraphs
       \/ shape' = "directed" /\ graph' \in DirectedGraphs
    /\ UNCHANGED <<program, answer>>

-----------------------------------------------------------------------------
(* Shortest ways.                                                          *)

\* The nearest vertex outside is marked until no edge leads out; the cost of
\* the others stays 0.
RECURSIVE Marked(_, _)
Marked(cost, marked) ==
    LET out == {e \in Edges : e[1] \in marked /\ e[2] \notin marked}
        best == Min({cost[e[1]] + graph[e] : e \in out})
        next == FirstPair({e \in out : cost[e[1]] + graph[e] = best})[2]
    IN IF out = {} THEN cost ELSE Marked([cost EXCEPT ![next] = best], marked \cup {next})

Dijkstra(start) == Marked([u \in Vertices |-> 0], {start})

\* dest, from which a way through k may be shorter; Far stands for MAX.
Far == 1000
Floyd ==
    LET Through(dest, k) == [e \in DOMAIN dest |-> Min({dest[e], dest[<<e[1], k>>] + dest[<<k, e[2]>>]})]
    IN FoldLeft(Through, [e \in DOMAIN graph |-> IF graph[e] = 0 THEN Far ELSE graph[e]], Order)

\* One vertex of the queue: s holds distances, times, flag, q and f.  A way
\* of more than N edges ends the loop, and the vertex is not queued again.
Relax(s, curr) ==
    LET Try(r, i) ==
            LET far == r.distances[curr] + graph[<<curr, i>>]
            IN IF r.left \/ ~Edge(curr, i) \/ r.distances[i] <= far THEN r
               ELSE IF r.times[curr] + 1 > N
                 THEN [r EXCEPT !.distances[i] = far, !.times[i] = r.times[curr] + 1, !.f = TRUE, !.left = TRUE]
               ELSE [r EXCEPT !.distances[i] = far, !.times[i] = r.times[curr] + 1,
                              !.q = IF r.flag[i] THEN Append(@, i) ELSE @, !.flag[i] = FALSE]
        end == FoldLeft(Try, [s EXCEPT !.left = FALSE], Order)
    IN [end EXCEPT !.f = FALSE, !.flag[curr] = IF end.f THEN @ ELSE TRUE]

RECURSIVE SpfaLoop(_)
SpfaLoop(s) == IF s.q = <<>> THEN s.distances ELSE SpfaLoop(Relax([s EXCEPT !.q = Tail(@)], Head(s.q)))

spfa(start) ==
    SpfaLoop([distances |-> [u \in Vertices |-> IF u = start THEN 0 ELSE Far],
              times |-> [u \in Vertices |-> 0], flag |-> [u \in Vertices |-> u # start],
              q |-> <<start>>, f |-> TRUE, left |-> FALSE])

-----------------------------------------------------------------------------
(* Spanning trees.                                                         *)

\* min, repeated: -1 and -1, were the graph not connected.
RECURSIVE PrimFrom(_)
PrimFrom(visited) ==
    LET out == {e \in Edges : e[1] \in visited /\ e[2] \notin visited}
        e == FirstPair({d \in out : graph[d] = Min({graph[c] : c \in out})})
    IN IF Cardinality(visited) = N THEN {} ELSE {e} \cup PrimFrom(visited \cup {e[2]})
Prim(start) == PrimFrom({start})

\* The whole tree of the second end gets the root of the first.
Regrafted(root, from, to) == [j \in DOMAIN root |-> IF root[j] = root[to] THEN root[from] ELSE root[j]]

RECURSIVE KruskalFrom(_, _)
KruskalFrom(root, tree) ==
    LET between == {e \in Edges : root[e[1]] # root[e[2]]}
        least == {e \in between : graph[e] = Min({graph[d] : d \in between})}
    IN IF between = {} THEN {tree}
       ELSE UNION {KruskalFrom(Regrafted(root, e[1], e[2]), tree \cup {e}) : e \in least}
Kruskal == KruskalFrom([u \in Vertices |-> u], {})

-----------------------------------------------------------------------------
(* Searches.                                                               *)

\* The unvisited neighbours of u, which are marked when they are pushed.
Fresh(u, visited) == SelectSeq(Order, LAMBDA w : Edge(u, w) /\ w \notin visited)

RECURSIVE DFS(_, _, _)
DFS(stack, visited, out) ==
    IF stack = <<>> THEN <<visited, out>>
    ELSE LET u == Last(stack)
             new == Fresh(u, visited)
         IN DFS(Front(stack) \o new, visited \cup ToSet(new), Append(out, u))

RECURSIVE BFS(_, _, _)
BFS(queue, visited, out) ==
    IF queue = <<>> THEN <<visited, out>>
    ELSE LET new == Fresh(Head(queue), visited)
         IN BFS(Tail(queue) \o new, visited \cup ToSet(new), out \o new)

\* main: from every vertex that no search before has visited.
SearchAll(depth) ==
    LET From(r, u) ==
            IF u \in r[1] THEN r
            ELSE IF depth THEN DFS(<<u>>, r[1] \cup {u}, r[2]) ELSE BFS(<<u>>, r[1] \cup {u}, Append(r[2], u))
    IN FoldLeft(From, <<{}, <<>>>>, Order)[2]

\* A vertex goes out when the edges from those before it have been counted off.
\* (A slip: the row of the matrix is counted and not the column.)
OutDegree(u) == Cardinality({w \in Vertices : Edge(u, w)})
InDegree(u) == Cardinality({w \in Vertices : Edge(w, u)})
RECURSIVE Counted(_, _, _)
Counted(q, indegree, out) ==
    IF q = <<>> THEN out
    ELSE LET u == Head(q)
             less == [w \in Vertices |-> IF Edge(u, w) THEN indegree[w] - 1 ELSE indegree[w]]
         IN Counted(Tail(q) \o SelectSeq(Order, LAMBDA w : Edge(u, w) /\ less[w] = 0), less, Append(out, u))
TopologicalSort == Counted(SelectSeq(Order, LAMBDA w : InDegree(w) = 0), [w \in Vertices |-> InDegree(w)], <<>>)

\* search: s holds dfn and low of every vertex (0: not visited), the count i,
\* the stack st, the cut vertices k, the subtrees x of the root and the blocks.
RECURSIVE search(_, _)
search(s, w) ==
    LET PopTo(st) == SubSeq(st, 1, Max({j \in DOMAIN st : st[j] = w}))
        Child(r, u) ==
            LET i == r.i + 1
                t == search([r EXCEPT !.dfn[u] = i, !.low[u] = i, !.i = i, !.st = Append(@, u)], u)
                up == [t EXCEPT !.low[w] = Min({@, t.low[u]})]
            IN IF up.low[u] < up.dfn[w] THEN up
               ELSE [up EXCEPT !.k = IF w # 0 THEN @ \cup {w} ELSE @,
                               !.x = IF w = 0 THEN @ + 1 ELSE @,
                               !.blocks = @ \cup {ToSet(SubSeq(up.st, Len(PopTo(up.st)) + 1, Len(up.st)))},
                               !.st = PopTo(@)]
        Look(r, u) ==
            IF ~Edge(w, u) THEN r
            ELSE IF r.dfn[u] = 0 THEN Child(r, u)
            ELSE [r EXCEPT !.low[w] = Min({@, r.dfn[u]})]
    IN FoldLeft(Look, s, Order)

ReadGraph ==
    LET one == [u \in Vertices |-> IF u = 0 THEN 1 ELSE 0]
    IN [dfn |-> one, low |-> one, i |-> 1, st |-> <<0>>, k |-> {}, x |-> 0, blocks |-> {}]

CutVertices ==
    LET s == search(ReadGraph, 0)
    IN [cuts |-> IF s.x > 1 THEN s.k \cup {0} ELSE s.k, blocks |-> s.blocks]

-----------------------------------------------------------------------------
(* Centres.                                                                *)

\* The loop of Dijkstra is there a second and a third time.
makeOneLine(x) == Dijkstra(x)
findFarest(x) == Max({Dijkstra(x)[u] : u \in Vertices})

\* find: 0 stands for no best one yet.
Centre ==
    FoldLeft(LAMBDA b, u : IF findFarest(u) < b[2] \/ b[2] = 0 THEN <<u, findFarest(u)>> ELSE b, <<-1, 0>>, Order)

\* check of the places s: the second of them is never looked at.
Looked(s) == {1} \cup 3 .. Len(s)
Service(s) == Max({Min({makeOneLine(s[j])[u] : j \in Looked(s)}) : u \in Vertices})

Places(p) == {s \in [1 .. p -> Vertices] : \A i, j \in 1 .. p : i < j => s[i] < s[j]}
PCentre(p) == Min({Service(s) : s \in Places(p)})

-----------------------------------------------------------------------------
(* Networks of activities.                                                 *)

TpSort == TopologicalSort

GoForward ==
    LET Event(VE, w) == [VE EXCEPT ![w] = Max({0} \cup {graph[<<j, w>>] + VE[j] : j \in {u \in Vertices : Edge(u, w)}})]
    IN FoldLeft(Event, [u \in Vertices |-> 0], TpSort)

\* 0 stands for no latest time yet, even if it is one.
GoBack(VE) ==
    LET order == TpSort
        Earlier(VL, w, e, j) == IF Edge(w, j) /\ (e = 0 \/ VL[j] - graph[<<w, j>>] < e) THEN VL[j] - graph[<<w, j>>] ELSE e
        Event(VL, w) == [VL EXCEPT ![w] = FoldLeft(LAMBDA e, j : Earlier(VL, w, e, j), 0, Order)]
    IN FoldLeft(Event, [u \in Vertices |-> IF u = Last(order) THEN VE[u] ELSE 0], Tail(Reverse(order)))

\* fillInfo: how much later than it can an activity may begin.
Spaces ==
    LET VE == GoForward
        VL == GoBack(VE)
    IN [e \in Edges |-> VL[e[2]] - graph[e] - VE[e[1]]]

-----------------------------------------------------------------------------
\* The parts of the graph that no edge of the tree leaves or enters.
Apart(tree) == {part \in SUBSET Vertices \ {{}, Vertices} : \A e \in tree : (e[1] \in part) = (e[2] \in part)}

Run(name, results) == program' = name /\ answer' \in results /\ UNCHANGED <<graph, shape>>

GrNext ==
    /\ program = "none"
    /\ \/ /\ shape \in {"symmetric", "acyclic"}
          /\ \/ Run("dijkstra", {Dijkstra(0)})
             \/ Run("floyd", {Floyd})
             \/ Run("bfs", {SearchAll(FALSE)})
             \/ Run("dfs", {SearchAll(TRUE)})
       \/ /\ shape = "directed"
          /\ \/ Run("spfa", {spfa(0)})
             \/ Run("topological", {TopologicalSort})
       \/ /\ shape = "symmetric" /\ Apart(Edges) = {}
          /\ \/ Run("prim", {Prim(0)})
             \/ Run("kruskal", Kruskal)
             \/ Run("cuts", {CutVertices})
             \/ Run("centre", {Centre})
             \/ Run("centres", {PCentre(2)})
       \/ TakeGraph
       \/ /\ shape = "acyclic" /\ {u \in Vertices : \A w \in Vertices : ~Edge(u, w)} = {N - 1}
          /\ Run("activities", {Spaces})

GrSpec == GrInit /\ [][GrNext]_grVars

-----------------------------------------------------------------------------
(* What the answers should be.                                             *)

\* The least weights of the ways of at most n edges of g.
Ways(g, n) ==
    FoldLeft(LAMBDA D, k : [e \in DOMAIN g |->
                 Min({D[e]} \cup {D[<<e[1], m>>] + g[<<m, e[2]>>] :
                                  m \in {u \in Vertices : g[<<u, e[2]>>] # 0 /\ D[<<e[1], u>>] < Far}})],
             [e \in DOMAIN g |-> IF e[1] = e[2] THEN 0 ELSE Far], InOrderOf(n))
Shortest == Ways(graph, N - 1)
ForeverLess == \E u \in Vertices : Ways(graph, N)[<<0, u>>] # Shortest[<<0, u>>]

Hops == Ways([e \in DOMAIN graph |-> IF graph[e] = 0 THEN 0 ELSE 1], N - 1)

Weight(tree) == FoldFunctionOnSet(LAMBDA a, b : a + b, 0, graph, tree)
SpanningTrees == {tree \in SUBSET {e \in Edges : e[1] < e[2]} : Cardinality(tree) = N - 1 /\ Apart(tree) = {}}
TwoCentres == Min({Max({Min({Shortest[<<a, u>>], Shortest[<<b, u>>]}) : u \in Vertices}) : a \in Vertices, b \in Vertices})
Cut(u) == \E part \in SUBSET (Vertices \ {u}) :
    part \notin {{}, Vertices \ {u}} /\ \A a \in part, b \in Vertices \ (part \cup {u}) : ~Edge(a, b)

\* The heaviest ways to and from u in an acyclic graph.
Heaviest == Ways([e \in DOMAIN graph |-> -graph[e]], N - 1)
HeaviestTo(u) == Max({-Heaviest[<<w, u>>] : w \in Vertices})
HeaviestFrom(u) == -Heaviest[<<u, N - 1>>]

\* Every program answers what its name says: the least weights, 0 for a vertex
\* that Dijkstra does not reach; spfa unless a cycle makes ways less for ever;
\* trees that span with the least weight; every vertex once; an order only for
\* a graph without a cycle; the vertices that separate others; the least of
\* the farthest distances, but for two centres only one that is no less
\* (the second one is not looked at); and the time an activity may lose.
AnswersRight ==
    CASE program = "none" -> TRUE
      [] program = "dijkstra" -> answer = [u \in Vertices |-> IF Shortest[<<0, u>>] < Far THEN Shortest[<<0, u>>] ELSE 0]
      [] program = "floyd" ->
            \A e \in DOMAIN graph :
                answer[e] = IF e[1] # e[2] THEN Shortest[e]
                            ELSE Min({Far} \cup {Shortest[<<e[1], u>>] + graph[<<u, e[1]>>] : u \in {w \in Vertices : Edge(w, e[1])}})
      [] program = "spfa" -> ForeverLess \/ answer = [u \in Vertices |-> Shortest[<<0, u>>]]
      [] program \in {"prim", "kruskal"} ->
            /\ answer \subseteq Edges /\ Cardinality(answer) = N - 1 /\ Apart(answer) = {}
            /\ \A tree \in SpanningTrees : Weight(answer) <= Weight(tree)
      [] program \in {"dfs", "bfs"} ->
            /\ Len(answer) = N /\ ToSet(answer) = Vertices
            /\ \A k \in 1 .. N : (\E j \in 1 .. k - 1 : Edge(answer[j], answer[k])) \/ \A j \in 1 .. k - 1 : Shortest[<<answer[j], answer[k]>>] = Far
      [] program = "topological" ->
            /\ \A j, k \in DOMAIN answer : Edge(answer[j], answer[k]) => j < k
            /\ (Len(answer) = N) = \A u, w \in Vertices : Edge(u, w) => Hops[<<w, u>>] = Far
      [] program = "cuts" ->
            /\ answer.cuts = {u \in Vertices : Cut(u)}
            /\ \A u \in Vertices \ {0} : Cardinality({b \in answer.blocks : u \in b}) = 1
      [] program = "centre" -> answer[2] = Min({Max({Shortest[<<u, w>>] : w \in Vertices}) : u \in Vertices})
      [] program = "centres" -> answer >= TwoCentres
      [] program = "activities" ->
            \A e \in Edges : answer[e] = HeaviestTo(N - 1) - HeaviestTo(e[1]) - graph[e] - HeaviestFrom(e[2])
=============================================================================
