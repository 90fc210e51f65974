--------------------------- MODULE DagAlgorithms ----------------------------
(***************************************************************************)
(* How a pipeline's graph is checked when it is registered - the           *)
(* dependency checks of pipeline.Validate, then Graph.Cycle, a depth-first *)
(* search in three colours - and how Graph.Topo orders it and Graph.Ready  *)
(* picks from it (internal/pipeline/validate.go, internal/dag/graph.go).   *)
(*                                                                         *)
(* The search is recursive in the code; here its calls are the frames of   *)
(* stack.  An action handles one dependency, one return or one node.       *)
(***************************************************************************)
EXTENDS Naturals, Sequences, FiniteSets, Functions

CONSTANTS
  Node,      \* the stages, Graph.nodes
  Order,     \* Graph.order: the order in which they were added
  Missing,   \* names that a stage may depend on and no stage has
  DepLists   \* the lists of dependencies that are tried

ASSUME GraphAssumption ==
  /\ IsFiniteSet(Node)
  /\ Order \in Seq(Node)
  /\ Range(Order) = Node
  /\ \A i, j \in DOMAIN Order : Order[i] = Order[j] => i = j
  /\ Missing \cap Node = {}
  /\ DepLists \subseteq Seq(Node \cup Missing)

VARIABLES
  deps,    \* deps[n]: the dependencies of n, as they are written
  phase,   \* "cycle", "cyclic", "topo" or "sorted"
  color,   \* color[n] in Cycle
  stack,   \* the path of Cycle's search
  visited, \* visited[n]: how many dependencies the frame of n has handled
  roots,   \* how many nodes of Order Cycle has looked at
  cycle,   \* the cycle that was found
  indeg,   \* indeg[n] in Topo
  queue,   \* Topo's queue
  out      \* Topo's result

cycleVars == <<color, stack, visited, roots, cycle>>
topoVars  == <<indeg, queue, out>>
vars == <<deps, phase, cycleVars, topoVars>>

Has(n) == n \in Node
DepSet(n) == Range(deps[n])

\* The nodes of S as a loop over Order meets them: the k-th of them is the
\* one up to which there are k.
InOrder(S) ==
  LET at == {i \in DOMAIN Order : Order[i] \in S}
      upTo(i) == {j \in at : j <= i}
  IN  [k \in 1 .. Cardinality(at) |->
         Order[CHOOSE i \in at : Cardinality(upTo(i)) = k]]

Init ==
  /\ deps \in [Node -> DepLists]
  /\ phase = "cycle"
  /\ color = [n \in Node |-> "white"]
  /\ stack = <<>> /\ visited = [n \in Node |-> 0] /\ roots = 0 /\ cycle = <<>>
  /\ indeg = [n \in Node |-> 0] /\ queue = <<>> /\ out = <<>>

-----------------------------------------------------------------------------
(***************************************************************************)
(* Cycle.                                                                  *)
(***************************************************************************)

Top == stack[Len(stack)]
Enter(n) == color' = [color EXCEPT ![n] = "gray"] /\ stack' = Append(stack, n)

\* The loop over Order: a white node starts a search.
NextRoot ==
  /\ phase = "cycle" /\ stack = <<>> /\ roots < Len(Order)
  /\ roots' = roots + 1
  /\ IF color[Order[roots + 1]] = "white"
       THEN Enter(Order[roots + 1])
       ELSE UNCHANGED <<color, stack>>
  /\ UNCHANGED <<deps, phase, visited, cycle, topoVars>>

\* The dependency that the top frame handles next.
Visiting(d) ==
  /\ phase = "cycle" /\ stack # <<>>
  /\ visited[Top] < Len(deps[Top])
  /\ d = deps[Top][visited[Top] + 1]
  /\ visited' = [visited EXCEPT ![Top] = @ + 1]

\* mutant: two colours only
SkipNotWhite(d) ==
  /\ Visiting(d)
  /\ d \notin {n \in Node : color[n] = "white"}
  /\ UNCHANGED <<deps, phase, color, stack, roots, cycle, topoVars>>

\* A name no stage has, or a node whose search has returned.
SkipDep(d) ==
  /\ Visiting(d)
  /\ d \notin {n \in Node : color[n] # "black"}
  /\ UNCHANGED <<deps, phase, color, stack, roots, cycle, topoVars>>

\* A search of its own for a white one.
Descend(d) ==
  /\ Visiting(d)
  /\ Has(d) /\ color[d] = "white"
  /\ Enter(d)
  /\ UNCHANGED <<deps, phase, roots, cycle, topoVars>>

\* mutant: leaves out the path
CycleFromTop(d) == <<Top, d>>

\* The path from d to the top, and back to d.
CycleThrough(d) ==
  LET i == CHOOSE k \in DOMAIN stack : stack[k] = d IN
  Append(SubSeq(stack, i, Len(stack)), d)

\* A gray one is on the path: that is a cycle.
FindCycle(d) ==
  /\ Visiting(d)
  /\ Has(d) /\ color[d] = "gray"
  /\ cycle' = CycleThrough(d)
  /\ phase' = "cyclic"
  /\ UNCHANGED <<deps, color, stack, roots, topoVars>>

\* All dependencies of the top frame are handled.
Return ==
  /\ phase = "cycle" /\ stack # <<>>
  /\ visited[Top] = Len(deps[Top])
  /\ color' = [color EXCEPT ![Top] = "black"]
  /\ stack' = SubSeq(stack, 1, Len(stack) - 1)
  /\ UNCHANGED <<deps, phase, visited, roots, cycle, topoVars>>

-----------------------------------------------------------------------------
(***************************************************************************)
(* Topo: what it does when Cycle found none.                               *)
(***************************************************************************)

\* How often m names n.
Named(m, n) == Cardinality({i \in DOMAIN deps[m] : deps[m][i] = n})

\* mutant: counts names that no stage has
InDegreeOfAll == [m \in Node |-> Len(deps[m])]

\* Names that no stage has do not count, repeated ones count again.
InDegree ==
  [m \in Node |-> Cardinality({i \in DOMAIN deps[m] : Has(deps[m][i])})]

StartTopo ==
  /\ phase = "cycle" /\ stack = <<>> /\ roots = Len(Order)
  /\ phase' = "topo"
  /\ indeg' = InDegree
  /\ queue' = InOrder({m \in Node : indeg'[m] = 0})
  /\ UNCHANGED <<deps, cycleVars, out>>

\* mutant: releases a repeated dependency once
ReleaseOnce(n) == [m \in Node |-> IF n \in DepSet(m) THEN indeg[m] - 1 ELSE indeg[m]]

\* The nested loops after n was taken.
Released(n) == [m \in Node |-> indeg[m] - Named(m, n)]

TakeNode ==
  /\ phase = "topo" /\ queue # <<>>
  /\ LET n == Head(queue) IN
     /\ out' = Append(out, n)
     /\ indeg' = Released(n)
     /\ queue' = Tail(queue) \o
                   InOrder({m \in Node : n \in DepSet(m) /\ indeg'[m] = 0})
  /\ UNCHANGED <<deps, phase, cycleVars>>

Sorted ==
  /\ phase = "topo" /\ queue = <<>>
  /\ phase' = "sorted"
  /\ UNCHANGED <<deps, cycleVars, topoVars>>

\* Ready: not done, and every dependency done.
Ready(done) == InOrder({n \in Node : n \notin done /\ DepSet(n) \subseteq done})

-----------------------------------------------------------------------------
Next ==
  \/ NextRoot \/ Return \/ StartTopo \/ TakeNode \/ Sorted
  \/ \E d \in Node \cup Missing : SkipDep(d) \/ Descend(d) \/ FindCycle(d)

Spec == Init /\ [][Next]_vars

\* Validate's checks before Cycle: dependencies on oneself and on no stage.
Referenced == \A n \in Node : n \notin DepSet(n) /\ DepSet(n) \subseteq Node
Accepted == Referenced /\ phase \in {"topo", "sorted"}

-----------------------------------------------------------------------------
(***************************************************************************)
(* Type correctness; no in-degree of Topo falls below zero.                *)
(***************************************************************************)
TypeOK ==
  /\ deps \in [Node -> DepLists]
  /\ phase \in {"cycle", "cyclic", "topo", "sorted"}
  /\ color \in [Node -> {"white", "gray", "black"}]
  /\ stack \in Seq(Node) /\ visited \in [Node -> Nat] /\ roots \in 0 .. Len(Order)
  /\ cycle \in Seq(Node)
  /\ indeg \in [Node -> Nat] /\ queue \in Seq(Node) /\ out \in Seq(Node)

\* Every set of nodes has one that does not depend on the set: there is no cycle.
Acyclic(S) == \A T \in (SUBSET S) \ {{}} : \E n \in T : DepSet(n) \cap T = {}

(***************************************************************************)
(* The path that Cycle returns is a cycle of the graph: it ends where it   *)
(* began, and each of its nodes depends on the next.                       *)
(***************************************************************************)
CycleIsReal ==
  phase = "cyclic" =>
    /\ Len(cycle) >= 2 /\ cycle[1] = cycle[Len(cycle)]
    /\ \A i \in 1 .. Len(cycle) - 1 : cycle[i + 1] \in DepSet(cycle[i])

(***************************************************************************)
(* The nodes whose search has returned hold no cycle, so that Cycle        *)
(* returns nil only for a graph without one.                               *)
(***************************************************************************)
NoCycleMissed ==
  /\ Acyclic({n \in Node : color[n] = "black"})
  /\ phase \in {"topo", "sorted"} => Acyclic(Node)

(***************************************************************************)
(* Topo never lists a node before one of its dependencies nor twice, also  *)
(* when a dependency is written twice, and it never fails with the error   *)
(* of graph.go:133: when the queue is empty all nodes are listed.  The     *)
(* place of a node in the list is the rank that StageRun assumes.          *)
(***************************************************************************)
TopoIsOrder ==
  /\ Cardinality(Range(out)) = Len(out)
  /\ \A i \in DOMAIN out :
       DepSet(out[i]) \cap Node \subseteq {out[j] : j \in 1 .. i - 1}
  /\ phase = "sorted" => Range(out) = Node

(***************************************************************************)
(* Two ways to the same answer: for a pipeline that Validate accepts, the  *)
(* queue of Topo holds the nodes that Ready picks after what is listed.    *)
(***************************************************************************)
QueueIsReady ==
  phase = "topo" /\ Accepted => Range(queue) = Range(Ready(Range(out)))
=============================================================================
