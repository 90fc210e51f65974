------------------------ MODULE DagAlgorithmsProofs -------------------------
(***************************************************************************)
(* Theorems about Cycle and Topo, for every graph: what Cycle finds is a    *)
(* cycle, it finds one if there is one, and if there is none Topo lists    *)
(* every node after its dependencies.                                      *)
(*                                                                         *)
(* PathInv: the stack holds the gray nodes, and each depends on the next,  *)
(* so that a gray dependency closes a cycle.  BlackInv: what a black node  *)
(* depends on is black, so that a set of black nodes that all depend on    *)
(* the set had none that was coloured last.  CountInv: indeg counts the    *)
(* places that name a node that is not listed, and the nodes for which     *)
(* none is left are those that are listed or wait; so when nothing waits,  *)
(* a node that is not listed depends on another one - on a cycle.          *)
(***************************************************************************)
EXTENDS DagAlgorithms, FiniteSetTheorems, SequenceTheorems, TLAPS

Black == {n \in Node : color[n] = "black"}

SearchTypes ==
  /\ deps \in [Node -> Seq(Node \cup Missing)]
  /\ phase \in {"cycle", "cyclic", "topo", "sorted"}
  /\ color \in [Node -> {"white", "gray", "black"}]
  /\ stack \in Seq(Node) /\ visited \in [Node -> Nat] /\ roots \in 0 .. Len(Order)
  /\ \A n \in Node : visited[n] <= Len(deps[n])

\* The stack is the path of the search: the gray nodes, each once.
PathInv ==
  /\ \A n \in Node : color[n] = "gray" <=> \E i \in 1 .. Len(stack) : stack[i] = n
  /\ \A i, j \in 1 .. Len(stack) : stack[i] = stack[j] => i = j
  /\ \A i \in 1 .. Len(stack) - 1 :
       visited[stack[i]] > 0 /\ deps[stack[i]][visited[stack[i]]] = stack[i + 1]

\* What was handled before the dependency that the search is in.
Behind(n) == {deps[n][k] : k \in 1 .. visited[n] - 1}

BlackInv ==
  /\ \A n \in Black : DepSet(n) \cap Node \subseteq Black
  /\ \A n \in Node : color[n] = "gray" => Behind(n) \cap Node \subseteq Black
  /\ phase = "cycle" /\ stack # <<>> /\ visited[Top] > 0 =>
       deps[Top][visited[Top]] \in Black \cup Missing
  /\ \A n \in Node : color[n] = "white" => visited[n] = 0
  /\ Acyclic(Black)

RootsInv ==
  /\ \A i \in 1 .. roots : color[Order[i]] # "white"
  /\ phase \in {"topo", "sorted"} => Black = Node

Inv == SearchTypes /\ PathInv /\ BlackInv /\ RootsInv /\ CycleIsReal

-----------------------------------------------------------------------------
(***************************************************************************)
(* Coloured last, a node that depends on coloured ones only closes no      *)
(* cycle with them.                                                        *)
(***************************************************************************)
LEMMA LastBlackened ==
  ASSUME NEW S \in SUBSET Node, NEW t \in Node,
         Acyclic(S), t \notin S,
         \A n \in S \cup {t} : DepSet(n) \cap Node \subseteq S
  PROVE  Acyclic(S \cup {t})
<1> SUFFICES ASSUME NEW T \in SUBSET (S \cup {t}), T # {}
             PROVE  \E n \in T : DepSet(n) \cap T = {}
  BY DEF Acyclic
<1>1. CASE T \ {t} = {}
  <2>1. T = {t} /\ t \notin DepSet(t)
    BY <1>1
  <2> QED BY <2>1
<1>2. CASE T \ {t} # {}
  <2>1. PICK n \in T \ {t} : DepSet(n) \cap (T \ {t}) = {}
    BY <1>2 DEF Acyclic
  <2>2. t \notin DepSet(n)
    BY <2>1
  <2> QED BY <2>1, <2>2
<1> QED BY <1>1, <1>2

\* The top of a stack that is not empty.
LEMMA TopIsLast ==
  ASSUME SearchTypes, stack # <<>>
  PROVE  /\ Len(stack) \in Nat \ {0}
         /\ Top \in Node /\ Top = stack[Len(stack)]
         /\ \A i \in 1 .. Len(stack) : stack[i] \in Node
         /\ deps[Top] \in Seq(Node \cup Missing)
BY EmptySeq DEF SearchTypes, Top

\* A sequence without its last element.
LEMMA WithoutLast ==
  ASSUME NEW S, NEW s \in Seq(S), Len(s) \in Nat \ {0}
  PROVE  /\ Len(SubSeq(s, 1, Len(s) - 1)) = Len(s) - 1
         /\ \A i \in 1 .. Len(s) - 1 : SubSeq(s, 1, Len(s) - 1)[i] = s[i]
<1> DEFINE k == Len(s) - 1
<1>1. k \in Nat /\ \A i \in 1 .. k : s[i] \in S
  OBVIOUS
<1> HIDE DEF k
<1>2. Len(SubSeq(s, 1, k)) = k /\ \A i \in 1 .. k : SubSeq(s, 1, k)[i] = s[i]
  BY <1>1, SubSeqProperties
<1> QED BY <1>2 DEF k

\* A step after the search, or none.
AfterSearch ==
  /\ UNCHANGED <<deps, color, stack, visited, roots, cycle>>
  /\ \/ phase' = phase
     \/ phase = "topo" /\ phase' = "sorted"

LEMMA Steps ==
  ASSUME [Next]_vars
  PROVE  \/ NextRoot \/ Return \/ StartTopo \/ AfterSearch
         \/ \E d \in Node \cup Missing : SkipDep(d) \/ Descend(d) \/ FindCycle(d)
<1>1. CASE TakeNode
  BY <1>1 DEF TakeNode, AfterSearch, cycleVars
<1>2. CASE Sorted
  BY <1>2 DEF Sorted, AfterSearch, cycleVars
<1>3. CASE UNCHANGED vars
  BY <1>3 DEF vars, AfterSearch, cycleVars
<1> QED BY <1>1, <1>2, <1>3 DEF Next

-----------------------------------------------------------------------------
LEMMA TypesStep ==
  ASSUME SearchTypes, [Next]_vars
  PROVE  SearchTypes'
<1> USE GraphAssumption
<1>1. CASE NextRoot
  <2>1. Order[roots + 1] \in Node
    BY <1>1 DEF NextRoot, SearchTypes
  <2>2. /\ color' \in [Node -> {"white", "gray", "black"}]
        /\ stack' \in Seq(Node)
    <3>1. CASE color[Order[roots + 1]] = "white"
      <4>1. /\ color' = [color EXCEPT ![Order[roots + 1]] = "gray"]
            /\ stack' = Append(stack, Order[roots + 1])
        BY <1>1, <3>1 DEF NextRoot, Enter
      <4> QED BY <2>1, <4>1 DEF SearchTypes
    <3>2. CASE color[Order[roots + 1]] # "white"
      BY <1>1, <3>2 DEF NextRoot, SearchTypes
    <3> QED BY <3>1, <3>2
  <2>3. roots' \in 0 .. Len(Order)
    BY <1>1 DEF NextRoot, SearchTypes
  <2> QED BY <1>1, <2>2, <2>3 DEF NextRoot, SearchTypes
<1>2. CASE Return
  <2>1. stack' \in Seq(Node)
    BY <1>2, TopIsLast DEF Return, SearchTypes
  <2>2. color' \in [Node -> {"white", "gray", "black"}]
    BY <1>2 DEF Return, SearchTypes
  <2> QED BY <1>2, <2>1, <2>2 DEF Return, SearchTypes
<1>3. CASE StartTopo
  BY <1>3 DEF StartTopo, SearchTypes, cycleVars
<1>4. CASE AfterSearch
  BY <1>4 DEF AfterSearch, SearchTypes
<1>5. ASSUME NEW d \in Node \cup Missing, SkipDep(d) \/ Descend(d) \/ FindCycle(d)
      PROVE  SearchTypes'
  <2>1. Visiting(d) /\ deps' = deps /\ roots' = roots
    BY <1>5 DEF SkipDep, Descend, FindCycle
  <2>2. /\ visited' \in [Node -> Nat]
        /\ \A n \in Node : visited'[n] <= Len(deps'[n])
    BY <2>1, TopIsLast DEF Visiting, SearchTypes
  <2>3. /\ phase' \in {"cycle", "cyclic", "topo", "sorted"}
        /\ color' \in [Node -> {"white", "gray", "black"}]
        /\ stack' \in Seq(Node)
    <3>1. CASE SkipDep(d)
      BY <3>1 DEF SkipDep, SearchTypes
    <3>2. CASE Descend(d)
      BY <3>2 DEF Descend, Enter, Has, SearchTypes
    <3>3. CASE FindCycle(d)
      BY <3>3 DEF FindCycle, SearchTypes
    <3> QED BY <1>5, <3>1, <3>2, <3>3
  <2> QED BY <2>1, <2>2, <2>3 DEF SearchTypes
<1> QED BY <1>1, <1>2, <1>3, <1>4, <1>5, Steps

LEMMA PathStep ==
  ASSUME SearchTypes, PathInv, BlackInv, [Next]_vars
  PROVE  PathInv'
<1> USE GraphAssumption
<1>0. SearchTypes'
  BY TypesStep
<1>1. CASE NextRoot
  <2>1. Order[roots + 1] \in Node /\ Len(stack) = 0
    BY <1>1 DEF NextRoot, SearchTypes
  <2>2. CASE color[Order[roots + 1]] = "white"
    <3>1. stack' = <<Order[roots + 1]>>
      BY <1>1, <2>1, <2>2 DEF NextRoot, Enter
    <3>2. color' = [color EXCEPT ![Order[roots + 1]] = "gray"]
      BY <1>1, <2>2 DEF NextRoot, Enter
    <3> QED BY <2>1, <3>1, <3>2 DEF PathInv, SearchTypes
  <2>3. CASE color[Order[roots + 1]] # "white"
    BY <1>1, <2>3 DEF NextRoot, PathInv
  <2> QED BY <2>2, <2>3
<1>2. CASE Return
  <2>1. /\ Len(stack) \in Nat \ {0} /\ Top \in Node
        /\ Top = stack[Len(stack)]
        /\ \A i \in 1 .. Len(stack) : stack[i] \in Node
    BY <1>2, TopIsLast DEF Return
  <2>2. /\ Len(stack') = Len(stack) - 1
        /\ \A i \in 1 .. Len(stack) - 1 : stack'[i] = stack[i]
    <3>1. stack \in Seq(Node) /\ stack' = SubSeq(stack, 1, Len(stack) - 1)
      BY <1>2 DEF Return, SearchTypes
    <3>3. /\ Len(stack') = Len(stack) - 1
          /\ \A i \in 1 .. Len(stack) - 1 : stack'[i] = stack[i]
      BY <2>1, <3>1, WithoutLast, Zenon
    <3> QED BY <3>3
  <2>3. /\ color' = [color EXCEPT ![Top] = "black"]
        /\ deps' = deps /\ visited' = visited
    BY <1>2 DEF Return
  <2>4. \A n \in Node : color'[n] = "gray" <=> \E i \in 1 .. Len(stack') : stack'[i] = n
    <3> SUFFICES ASSUME NEW n \in Node
                 PROVE  color'[n] = "gray" <=> \E i \in 1 .. Len(stack') : stack'[i] = n
      OBVIOUS
    <3>1. CASE n = Top
      BY <2>1, <2>2, <2>3, <3>1 DEF PathInv, SearchTypes
    <3>2. CASE n # Top
      <4>1. color'[n] = "gray" <=> \E i \in 1 .. Len(stack) : stack[i] = n
        BY <2>3, <3>2 DEF PathInv, SearchTypes
      <4> QED BY <2>1, <2>2, <3>2, <4>1
    <3> QED BY <3>1, <3>2
  <2>5. \A i, j \in 1 .. Len(stack') : stack'[i] = stack'[j] => i = j
    BY <2>1, <2>2 DEF PathInv
  <2>6. \A i \in 1 .. Len(stack') - 1 :
          visited'[stack'[i]] > 0 /\ deps'[stack'[i]][visited'[stack'[i]]] = stack'[i + 1]
    BY <2>1, <2>2, <2>3 DEF PathInv
  <2> QED BY <2>4, <2>5, <2>6 DEF PathInv
<1>3. CASE StartTopo
  BY <1>3 DEF StartTopo, PathInv, cycleVars
<1>4. CASE AfterSearch
  BY <1>4 DEF AfterSearch, PathInv
<1>5. ASSUME NEW d \in Node \cup Missing, SkipDep(d) \/ Descend(d) \/ FindCycle(d)
      PROVE  PathInv'
  <2>1. /\ stack # <<>> /\ d = deps[Top][visited[Top] + 1]
        /\ visited' = [visited EXCEPT ![Top] = @ + 1] /\ deps' = deps
    BY <1>5 DEF SkipDep, Descend, FindCycle, Visiting
  <2>2. /\ Len(stack) \in Nat \ {0} /\ Top \in Node
        /\ Top = stack[Len(stack)]
        /\ \A i \in 1 .. Len(stack) : stack[i] \in Node
    BY <2>1, TopIsLast
  <2>3. \A i \in 1 .. Len(stack) - 1 :
          visited'[stack[i]] > 0 /\ deps'[stack[i]][visited'[stack[i]]] = stack[i + 1]
    <3> SUFFICES ASSUME NEW i \in 1 .. Len(stack) - 1
                 PROVE  visited'[stack[i]] > 0
                        /\ deps'[stack[i]][visited'[stack[i]]] = stack[i + 1]
      OBVIOUS
    <3>1. stack[i] # Top /\ stack[i] \in Node
      BY <2>2 DEF PathInv
    <3>2. visited'[stack[i]] = visited[stack[i]]
      BY <2>1, <3>1 DEF SearchTypes
    <3> QED BY <2>1, <3>2 DEF PathInv
  <2>4. CASE SkipDep(d) \/ FindCycle(d)
    BY <2>3, <2>4 DEF SkipDep, FindCycle, PathInv
  <2>5. CASE Descend(d)
    <3>1. /\ d \in Node /\ color[d] = "white"
          /\ color' = [color EXCEPT ![d] = "gray"] /\ stack' = Append(stack, d)
      BY <2>5 DEF Descend, Enter, Has
    <3>2. /\ Len(stack') = Len(stack) + 1 /\ stack'[Len(stack) + 1] = d
          /\ \A i \in 1 .. Len(stack) : stack'[i] = stack[i]
      BY <3>1, <2>2 DEF SearchTypes
    <3>3. \A i \in 1 .. Len(stack) : stack[i] # d
      BY <3>1 DEF PathInv
    <3>4. \A n \in Node : color'[n] = "gray" <=> \E i \in 1 .. Len(stack') : stack'[i] = n
      <4> SUFFICES ASSUME NEW n \in Node
                   PROVE  color'[n] = "gray" <=> \E i \in 1 .. Len(stack') : stack'[i] = n
        OBVIOUS
      <4>1. CASE n = d
        BY <2>2, <3>1, <3>2, <4>1 DEF SearchTypes
      <4>2. CASE n # d
        <5>1. color'[n] = "gray" <=> \E i \in 1 .. Len(stack) : stack[i] = n
          BY <3>1, <4>2 DEF PathInv, SearchTypes
        <5> QED BY <2>2, <3>2, <4>2, <5>1
      <4> QED BY <4>1, <4>2
    <3>5. \A i, j \in 1 .. Len(stack') : stack'[i] = stack'[j] => i = j
      BY <2>2, <3>2, <3>3 DEF PathInv
    <3>6. \A i \in 1 .. Len(stack') - 1 :
            visited'[stack'[i]] > 0 /\ deps'[stack'[i]][visited'[stack'[i]]] = stack'[i + 1]
      <4> SUFFICES ASSUME NEW i \in 1 .. Len(stack') - 1
                   PROVE  visited'[stack'[i]] > 0
                          /\ deps'[stack'[i]][visited'[stack'[i]]] = stack'[i + 1]
        OBVIOUS
      <4>1. CASE i = Len(stack)
        <5>1. stack'[i] = Top /\ stack'[i + 1] = d
          BY <2>2, <3>2, <4>1
        <5>2. visited'[Top] = visited[Top] + 1 /\ visited[Top] \in Nat
          BY <2>1, <2>2 DEF SearchTypes
        <5> QED BY <2>1, <5>1, <5>2
      <4>2. CASE i # Len(stack)
        <5>1. i \in 1 .. Len(stack) - 1 /\ i + 1 \in 1 .. Len(stack)
          BY <2>2, <3>2, <4>2
        <5> QED BY <2>3, <3>2, <5>1
      <4> QED BY <4>1, <4>2
    <3> QED BY <3>4, <3>5, <3>6 DEF PathInv
  <2> QED BY <1>5, <2>4, <2>5
<1> QED BY <1>1, <1>2, <1>3, <1>4, <1>5, Steps

-----------------------------------------------------------------------------
LEMMA BlackStep ==
  ASSUME SearchTypes, PathInv, BlackInv, [Next]_vars
  PROVE  BlackInv'
<1> USE GraphAssumption
<1>1. CASE NextRoot
  <2>1. /\ Order[roots + 1] \in Node
        /\ deps' = deps /\ visited' = visited /\ phase' = phase
    BY <1>1 DEF NextRoot, SearchTypes
  <2>2. CASE color[Order[roots + 1]] = "white"
    <3> DEFINE r == Order[roots + 1]
    <3>1. color' = [color EXCEPT ![r] = "gray"] /\ stack' = <<r>> /\ visited[r] = 0
      BY <1>1, <2>1, <2>2 DEF NextRoot, Enter, BlackInv
    <3>2. Black' = Black
      BY <2>1, <2>2, <3>1 DEF Black, SearchTypes
    <3>3. \A n \in Node : DepSet(n)' = DepSet(n) /\ Behind(n)' = Behind(n)
      BY <2>1 DEF DepSet, Behind
    <3>4. Acyclic(Black)'
      BY <2>1, <3>2 DEF Acyclic, DepSet, BlackInv
    <3>5. \A n \in Node : color'[n] = "gray" => Behind(n)' \cap Node \subseteq Black
      <4> SUFFICES ASSUME NEW n \in Node, color'[n] = "gray"
                   PROVE  Behind(n)' \cap Node \subseteq Black
        OBVIOUS
      <4>1. CASE n = r
        <5>1. Behind(n) = {}
          BY <3>1, <4>1 DEF Behind
        <5> QED BY <3>3, <5>1
      <4>2. CASE n # r
        BY <3>1, <3>3, <4>2 DEF BlackInv, SearchTypes
      <4> QED BY <4>1, <4>2
    <3>6. Top' = r
      BY <3>1 DEF Top
    <3>7. \A n \in Node : color'[n] = "white" => visited'[n] = 0
      BY <2>1, <3>1 DEF BlackInv, SearchTypes
    <3>8. \A n \in Black' : DepSet(n)' \cap Node \subseteq Black'
      BY <3>2, <3>3 DEF BlackInv, Black
    <3>9. ~ visited'[Top'] > 0
      BY <2>1, <3>1, <3>6
    <3> QED BY <3>2, <3>4, <3>5, <3>7, <3>8, <3>9 DEF BlackInv
  <2>3. CASE color[Order[roots + 1]] # "white"
    <3>1. UNCHANGED <<deps, phase, color, stack, visited>>
      BY <1>1, <2>3 DEF NextRoot
    <3> QED BY <3>1 DEF BlackInv, Black, DepSet, Behind, Acyclic, Top
  <2> QED BY <2>2, <2>3
<1>2. CASE Return
  <2>1. /\ Len(stack) \in Nat \ {0} /\ Top \in Node
        /\ Top = stack[Len(stack)] /\ deps[Top] \in Seq(Node \cup Missing)
    BY <1>2, TopIsLast DEF Return
  <2>2. /\ color' = [color EXCEPT ![Top] = "black"]
        /\ stack' = SubSeq(stack, 1, Len(stack) - 1)
        /\ deps' = deps /\ visited' = visited /\ phase = "cycle"
        /\ visited[Top] = Len(deps[Top])
    BY <1>2 DEF Return
  <2>3. color[Top] = "gray" /\ Top \notin Black
    BY <2>1 DEF PathInv, Black
  <2>4. Black' = Black \cup {Top}
    BY <2>1, <2>2 DEF Black, SearchTypes
  <2>5. DepSet(Top) \cap Node \subseteq Black
    <3> SUFFICES ASSUME NEW k \in 1 .. Len(deps[Top]), deps[Top][k] \in Node
                 PROVE  deps[Top][k] \in Black
      BY <2>1 DEF DepSet, Range
    <3>1. CASE k = visited[Top]
      BY <1>2, <2>2, <3>1 DEF Return, BlackInv
    <3>2. CASE k # visited[Top]
      <4>1. k \in 1 .. visited[Top] - 1
        BY <2>1, <2>2, <3>2
      <4>2. deps[Top][k] \in Behind(Top)
        BY <4>1 DEF Behind
      <4> QED BY <2>1, <2>3, <4>2 DEF BlackInv
    <3> QED BY <3>1, <3>2
  <2>6. \A n \in Black \cup {Top} : DepSet(n) \cap Node \subseteq Black
    BY <2>5 DEF BlackInv
  <2>7. Acyclic(Black \cup {Top})
    <3>1. Black \in SUBSET Node /\ Acyclic(Black)
      BY DEF Black, BlackInv
    <3> QED BY <2>1, <2>3, <2>6, <3>1, LastBlackened
  <2>8. Acyclic(Black)'
    BY <2>2, <2>4, <2>7 DEF Acyclic, DepSet
  <2>9. \A n \in Black' : DepSet(n)' \cap Node \subseteq Black'
    BY <2>2, <2>4, <2>6 DEF DepSet
  <2>10. \A n \in Node : color'[n] = "gray" => Behind(n)' \cap Node \subseteq Black'
    <3> SUFFICES ASSUME NEW n \in Node, color'[n] = "gray"
                 PROVE  Behind(n)' \cap Node \subseteq Black'
      OBVIOUS
    <3>1. color[n] = "gray" /\ Behind(n)' = Behind(n)
      BY <2>1, <2>2 DEF Behind, SearchTypes
    <3> QED BY <2>4, <3>1 DEF BlackInv
  <2>11. ASSUME stack' # <<>>, visited'[Top'] > 0
         PROVE  deps'[Top'][visited'[Top']] \in Black' \cup Missing
    <3>1. /\ Len(stack') = Len(stack) - 1
          /\ \A i \in 1 .. Len(stack) - 1 : stack'[i] = stack[i]
      BY <2>1, <2>2, WithoutLast DEF SearchTypes
    <3>2. Len(stack) # 1
      <4> SUFFICES ASSUME Len(stack) = 1
                   PROVE  FALSE
        OBVIOUS
      <4>1. Len(stack') = 0
        BY <3>1
      <4>2. stack' = <<>>
        BY <2>2, <4>1, TypesStep, EmptySeq DEF SearchTypes
      <4> QED BY <2>11, <4>2
    <3>3. Len(stack) - 1 \in 1 .. Len(stack) - 1
      <4> DEFINE k == Len(stack)
      <4>1. k \in Nat /\ k # 0 /\ k # 1
        BY <2>1, <3>2
      <4> HIDE DEF k
      <4>2. k - 1 \in 1 .. k - 1
        BY <4>1
      <4> QED BY <4>2 DEF k
    <3>4. Top' = stack[Len(stack) - 1]
      BY <3>1, <3>3 DEF Top
    <3>5. deps[stack[Len(stack) - 1]][visited[stack[Len(stack) - 1]]] = stack[Len(stack)]
      <4>1. Len(stack) - 1 + 1 = Len(stack)
        BY <2>1
      <4> QED BY <3>3, <4>1 DEF PathInv
    <3> QED BY <2>1, <2>2, <2>4, <3>4, <3>5
  <2>12. \A n \in Node : color'[n] = "white" => visited'[n] = 0
    BY <2>1, <2>2 DEF BlackInv, SearchTypes
  <2> QED BY <2>8, <2>9, <2>10, <2>11, <2>12 DEF BlackInv
<1>3. CASE StartTopo
  <2>1. UNCHANGED <<deps, color, stack, visited>> /\ phase' # "cycle"
    BY <1>3 DEF StartTopo, cycleVars
  <2> QED BY <2>1 DEF BlackInv, Black, DepSet, Behind, Acyclic, Top
<1>4. CASE AfterSearch
  <2>1. UNCHANGED <<deps, color, stack, visited>> /\ (phase' = "cycle" => phase = "cycle")
    BY <1>4 DEF AfterSearch
  <2> QED BY <2>1 DEF BlackInv, Black, DepSet, Behind, Acyclic, Top
<1>5. ASSUME NEW d \in Node \cup Missing, SkipDep(d) \/ Descend(d) \/ FindCycle(d)
      PROVE  BlackInv'
  <2>1. /\ phase = "cycle" /\ stack # <<>> /\ d = deps[Top][visited[Top] + 1]
        /\ visited' = [visited EXCEPT ![Top] = @ + 1] /\ deps' = deps
    BY <1>5 DEF SkipDep, Descend, FindCycle, Visiting
  <2>2. /\ Len(stack) \in Nat \ {0} /\ Top \in Node
        /\ Top = stack[Len(stack)]
    BY <2>1, TopIsLast
  <2>3. color[Top] = "gray"
    BY <2>2 DEF PathInv
  <2>4. visited[Top] \in Nat /\ visited'[Top] = visited[Top] + 1
    BY <2>1, <2>2 DEF SearchTypes
  <2>5. Black' = Black
    <3>1. CASE SkipDep(d) \/ FindCycle(d)
      BY <3>1 DEF SkipDep, FindCycle, Black
    <3>2. CASE Descend(d)
      BY <3>2 DEF Descend, Enter, Has, Black, SearchTypes
    <3> QED BY <1>5, <3>1, <3>2
  <2>6. Behind(Top) \cap Node \subseteq Black
        /\ (visited[Top] > 0 => deps[Top][visited[Top]] \in Black \cup Missing)
    BY <2>1, <2>2, <2>3 DEF BlackInv
  <2>7. {deps[Top][k] : k \in 1 .. visited[Top]} \cap Node \subseteq Black
    <3> SUFFICES ASSUME NEW k \in 1 .. visited[Top], deps[Top][k] \in Node
                 PROVE  deps[Top][k] \in Black
      OBVIOUS
    <3>1. CASE k = visited[Top]
      BY <2>4, <2>6, <3>1
    <3>2. CASE k # visited[Top]
      <4>1. k \in 1 .. visited[Top] - 1
        BY <2>4, <3>2
      <4> QED BY <2>6, <4>1 DEF Behind
    <3> QED BY <3>1, <3>2
  <2>8. ASSUME NEW n \in Node, color'[n] = "gray"
        PROVE  Behind(n)' \cap Node \subseteq Black
    <3>1. CASE n = Top
      <4>1. Behind(n)' = {deps[Top][k] : k \in 1 .. visited[Top]}
        <5>1. visited'[Top] - 1 = visited[Top]
          BY <2>4
        <5> QED BY <2>1, <3>1, <5>1 DEF Behind
      <4> QED BY <2>7, <4>1
    <3>2. CASE n # Top /\ color[n] = "gray"
      <4>1. visited'[n] = visited[n]
        BY <2>1, <3>2 DEF SearchTypes
      <4>2. Behind(n)' = Behind(n)
        BY <2>1, <4>1 DEF Behind
      <4> QED BY <3>2, <4>2 DEF BlackInv
    <3>3. CASE color[n] # "gray"
      <4>1. Descend(d) /\ n = d /\ color[d] = "white"
        BY <1>5, <2>8, <3>3 DEF SkipDep, FindCycle, Descend, Enter, SearchTypes
      <4>2. visited'[n] = 0
        BY <2>1, <2>3, <3>3, <4>1 DEF BlackInv, SearchTypes
      <4>3. Behind(n)' = {}
        BY <4>2 DEF Behind
      <4> QED BY <4>3
    <3> QED BY <3>1, <3>2, <3>3
  <2>9. ASSUME phase' = "cycle", visited'[Top'] > 0
        PROVE  deps'[Top'][visited'[Top']] \in Black \cup Missing
    <3>1. CASE SkipDep(d)
      <4>1. d \in Black \cup Missing /\ Top' = Top
        BY <3>1 DEF SkipDep, Black, Top
      <4> QED BY <2>1, <2>4, <4>1
    <3>2. CASE Descend(d)
      <4>1. d \in Node /\ color[d] = "white" /\ stack' = Append(stack, d)
        BY <3>2 DEF Descend, Enter, Has
      <4>2. Top' = d
        BY <4>1, <2>2 DEF Top, SearchTypes
      <4>3. visited'[d] = 0
        BY <2>1, <2>3, <4>1 DEF BlackInv, SearchTypes
      <4> QED BY <2>9, <4>2, <4>3
    <3>3. CASE FindCycle(d)
      BY <2>9, <3>3 DEF FindCycle
    <3> QED BY <1>5, <3>1, <3>2, <3>3
  <2>10. ASSUME NEW n \in Node, color'[n] = "white"
         PROVE  visited'[n] = 0
    <3>1. color[n] = "white"
      BY <1>5, <2>10 DEF SkipDep, FindCycle, Descend, Enter, Has, SearchTypes
    <3> QED BY <2>1, <2>3, <3>1 DEF BlackInv, SearchTypes
  <2>11. Acyclic(Black)'
    BY <2>1, <2>5 DEF Acyclic, DepSet, BlackInv
  <2>12. \A n \in Black' : DepSet(n)' \cap Node \subseteq Black'
    BY <2>1, <2>5 DEF BlackInv, DepSet
  <2> QED BY <2>5, <2>8, <2>9, <2>10, <2>11, <2>12 DEF BlackInv
<1> QED BY <1>1, <1>2, <1>3, <1>4, <1>5, Steps

-----------------------------------------------------------------------------
LEMMA RootsStep ==
  ASSUME SearchTypes, PathInv, RootsInv, [Next]_vars
  PROVE  RootsInv'
<1> USE GraphAssumption
<1>1. CASE NextRoot
  <2>1. /\ Order[roots + 1] \in Node /\ roots' = roots + 1 /\ roots \in Nat
        /\ phase' = "cycle" /\ phase = "cycle"
    BY <1>1 DEF NextRoot, SearchTypes
  <2>2. \A n \in Node : color[n] # "white" => color'[n] # "white"
    BY <1>1, <2>1 DEF NextRoot, Enter, SearchTypes
  <2>3. color'[Order[roots + 1]] # "white"
    BY <1>1, <2>1 DEF NextRoot, Enter, SearchTypes
  <2>4. ASSUME NEW i \in 1 .. roots'
        PROVE  color'[Order[i]] # "white"
    <3>1. CASE i = roots + 1
      BY <2>3, <3>1
    <3>2. CASE i # roots + 1
      <4>1. i \in 1 .. roots /\ Order[i] \in Node
        BY <2>1, <3>2 DEF SearchTypes
      <4> QED BY <2>2, <4>1 DEF RootsInv
    <3> QED BY <3>1, <3>2
  <2> QED BY <2>1, <2>4 DEF RootsInv
<1>2. CASE Return
  <2>1. /\ Top \in Node /\ color' = [color EXCEPT ![Top] = "black"]
        /\ phase = "cycle" /\ phase' = phase /\ roots' = roots
    BY <1>2, TopIsLast DEF Return
  <2>2. \A i \in 1 .. roots : Order[i] \in Node
    BY DEF SearchTypes
  <2> QED BY <2>1, <2>2 DEF RootsInv, SearchTypes
<1>3. CASE StartTopo
  <2>1. UNCHANGED <<color, roots>> /\ stack = <<>> /\ roots = Len(Order)
    BY <1>3 DEF StartTopo, cycleVars
  <2>2. \A n \in Node : \E i \in 1 .. roots : Order[i] = n
    BY <2>1 DEF Range
  <2>3. \A n \in Node : color[n] # "white"
    BY <2>2 DEF RootsInv
  <2>4. \A n \in Node : color[n] # "gray"
    <3>1. Len(stack) = 0
      BY <2>1
    <3> QED BY <3>1 DEF PathInv
  <2>5. Black = Node
    BY <2>3, <2>4 DEF Black, SearchTypes
  <2> QED BY <2>1, <2>5 DEF RootsInv, Black
<1>4. CASE AfterSearch
  BY <1>4 DEF AfterSearch, RootsInv, Black
<1>5. ASSUME NEW d \in Node \cup Missing, SkipDep(d) \/ Descend(d) \/ FindCycle(d)
      PROVE  RootsInv'
  <2>1. roots' = roots /\ phase' \notin {"topo", "sorted"}
    BY <1>5 DEF SkipDep, Descend, FindCycle, Visiting
  <2>2. \A n \in Node : color[n] # "white" => color'[n] # "white"
    BY <1>5 DEF SkipDep, Descend, FindCycle, Enter, Has, SearchTypes
  <2>3. \A i \in 1 .. roots : Order[i] \in Node
    BY DEF SearchTypes
  <2> QED BY <2>1, <2>2, <2>3 DEF RootsInv
<1> QED BY <1>1, <1>2, <1>3, <1>4, <1>5, Steps

LEMMA CycleStep ==
  ASSUME SearchTypes, PathInv, CycleIsReal, [Next]_vars
  PROVE  CycleIsReal'
<1>1. CASE UNCHANGED <<deps, cycle>> /\ (phase' = "cyclic" => phase = "cyclic")
  BY <1>1 DEF CycleIsReal, DepSet
<1>2. ASSUME NEW d \in Node \cup Missing, FindCycle(d)
      PROVE  CycleIsReal'
  <2>1. /\ stack # <<>> /\ visited[Top] < Len(deps[Top])
        /\ d = deps[Top][visited[Top] + 1] /\ deps' = deps
        /\ d \in Node /\ color[d] = "gray" /\ cycle' = CycleThrough(d)
    BY <1>2 DEF FindCycle, Visiting, Has
  <2>2. /\ Len(stack) \in Nat \ {0} /\ Top \in Node
        /\ Top = stack[Len(stack)] /\ deps[Top] \in Seq(Node \cup Missing)
        /\ \A i \in 1 .. Len(stack) : stack[i] \in Node
    BY <2>1, TopIsLast
  <2>3. d \in DepSet(Top)
    BY <2>1, <2>2 DEF DepSet, Range, SearchTypes
  <2>4. PICK p \in 1 .. Len(stack) :
          stack[p] = d /\ cycle' = Append(SubSeq(stack, p, Len(stack)), d)
    <3>1. DOMAIN stack = 1 .. Len(stack)
      BY DEF SearchTypes
    <3>2. \E k \in DOMAIN stack : stack[k] = d
      BY <2>1, <3>1 DEF PathInv
    <3> QED BY <2>1, <3>1, <3>2 DEF CycleThrough
  <2> DEFINE path == SubSeq(stack, p, Len(stack))
  <2> DEFINE len == Len(stack) - p + 1
  <2>5. /\ path \in Seq(Node) /\ Len(path) = len
        /\ \A i \in 1 .. len : path[i] = stack[p + i - 1]
    BY <2>2, SubSeqProperties
  <2> HIDE DEF path
  <2>6. /\ Len(cycle') = len + 1 /\ cycle'[len + 1] = d
        /\ \A i \in 1 .. len : cycle'[i] = stack[p + i - 1]
    BY <2>1, <2>4, <2>5 DEF path
  <2>7. len \in Nat \ {0}
    BY <2>2
  <2>8. cycle'[1] = d
    BY <2>4, <2>6, <2>7
  <2>9. ASSUME NEW i \in 1 .. len
        PROVE  cycle'[i + 1] \in DepSet(cycle'[i])
    <3>1. CASE i = len
      BY <2>2, <2>3, <2>6, <3>1
    <3>2. CASE i # len
      <4> DEFINE q == p + i - 1
      <4>1. q \in 1 .. Len(stack) - 1 /\ i + 1 \in 1 .. len /\ p + (i + 1) - 1 = q + 1
        BY <2>2, <2>7, <3>2
      <4>2. cycle'[i] = stack[q] /\ cycle'[i + 1] = stack[q + 1]
        BY <2>6, <4>1
      <4>3. /\ visited[stack[q]] > 0
            /\ deps[stack[q]][visited[stack[q]]] = stack[q + 1]
        BY <4>1 DEF PathInv
      <4>4. stack[q] \in Node
        BY <2>2, <4>1
      <4>5. visited[stack[q]] \in 1 .. Len(deps[stack[q]])
        BY <4>3, <4>4 DEF SearchTypes
      <4>6. stack[q + 1] \in DepSet(stack[q])
        <5>1. deps[stack[q]] \in Seq(Node \cup Missing)
          BY <4>4 DEF SearchTypes
        <5>2. visited[stack[q]] \in DOMAIN deps[stack[q]]
          BY <4>5, <5>1
        <5> QED BY <4>3, <5>2 DEF DepSet, Range
      <4> QED BY <4>2, <4>6
    <3> QED BY <3>1, <3>2
  <2>10. \A i \in 1 .. Len(cycle') - 1 : cycle'[i + 1] \in Range(deps'[cycle'[i]])
    <3>1. Len(cycle') - 1 = len
      BY <2>6, <2>7
    <3> QED BY <2>1, <2>9, <3>1 DEF DepSet
  <2> QED BY <2>6, <2>7, <2>8, <2>10 DEF CycleIsReal, DepSet
<1>3. CASE \E d \in Node \cup Missing : FindCycle(d)
  BY <1>2, <1>3
<1>4. CASE NextRoot \/ Return \/ StartTopo \/ AfterSearch
  BY <1>1, <1>4 DEF NextRoot, Return, StartTopo, AfterSearch, cycleVars
<1>5. CASE \E d \in Node \cup Missing : SkipDep(d) \/ Descend(d)
  BY <1>1, <1>5 DEF SkipDep, Descend, Visiting
<1> QED BY <1>3, <1>4, <1>5, Steps

-----------------------------------------------------------------------------
(***************************************************************************)
(* The invariant of the search holds in every state.                       *)
(***************************************************************************)
THEOREM InvHolds == Spec => []Inv
<1>1. Init => Inv
  <2> SUFFICES ASSUME Init
               PROVE  Inv
    OBVIOUS
  <2>1. SearchTypes
    BY GraphAssumption DEF Init, SearchTypes
  <2>2. Black = {}
    BY DEF Init, Black
  <2>3. PathInv
    BY DEF Init, PathInv
  <2>4. Acyclic(Black)
    BY <2>2 DEF Acyclic
  <2>6. BlackInv
    BY <2>2, <2>4 DEF Init, BlackInv
  <2>5. RootsInv
    BY DEF Init, RootsInv
  <2> QED BY <2>1, <2>3, <2>6, <2>5 DEF Init, Inv, CycleIsReal
<1>2. Inv /\ [Next]_vars => Inv'
  BY TypesStep, PathStep, BlackStep, RootsStep, CycleStep DEF Inv
<1> QED BY <1>1, <1>2, PTL DEF Spec

(***************************************************************************)
(* Of every graph: what Cycle returns is a cycle of it (graph.go).         *)
(***************************************************************************)
THEOREM CycleIsRealHolds == Spec => []CycleIsReal
<1>1. Inv => CycleIsReal
  BY DEF Inv
<1> QED BY <1>1, InvHolds, PTL

(***************************************************************************)
(* Of every graph: Cycle returns nil only if it has no cycle, so that the  *)
(* pipelines that Validate lets through are acyclic, as StageRun assumes.  *)
(***************************************************************************)
THEOREM NoCycleMissedHolds == Spec => []NoCycleMissed
<1>1. Inv => NoCycleMissed
  BY DEF Inv, BlackInv, RootsInv, NoCycleMissed, Black
<1> QED BY <1>1, InvHolds, PTL
-----------------------------------------------------------------------------
(***************************************************************************)
(* The invariant of Topo.                                                  *)
(***************************************************************************)

\* Where m names a node that is not listed yet.
Pending(m) == {i \in DOMAIN deps[m] : deps[m][i] \in Node \ Range(out)}

Distinct(s) == \A i, j \in DOMAIN s : s[i] = s[j] => i = j

TopoTypes ==
  indeg \in [Node -> Nat] /\ queue \in Seq(Node) /\ out \in Seq(Node)

\* What counts down in indeg; what is listed or waits has nothing left.
CountInv ==
  phase \in {"topo", "sorted"} =>
    /\ \A m \in Node : indeg[m] = Cardinality(Pending(m))
    /\ Range(out) \cup Range(queue) = {m \in Node : indeg[m] = 0}

ListInv ==
  /\ Distinct(out) /\ Distinct(queue) /\ Range(out) \cap Range(queue) = {}
  /\ \A i \in DOMAIN out :
       DepSet(out[i]) \cap Node \subseteq {out[j] : j \in 1 .. i - 1}
  /\ phase \in {"cycle", "cyclic"} => out = <<>>
  /\ phase = "sorted" => queue = <<>>

TopoInv == TopoTypes /\ CountInv /\ ListInv
-----------------------------------------------------------------------------
(***************************************************************************)
(* A loop over Order that picks the nodes of S finds each of them, once.   *)
(***************************************************************************)
LEMMA InOrderLists ==
  ASSUME NEW S \in SUBSET Node
  PROVE  /\ InOrder(S) \in Seq(Node)
         /\ Range(InOrder(S)) = S
         /\ Distinct(InOrder(S))
<1> USE GraphAssumption
<1> DEFINE at == {i \in DOMAIN Order : Order[i] \in S}
           upTo(i) == {j \in at : j <= i}
           count == Cardinality(at)
           rank == [i \in at |-> Cardinality(upTo(i))]
<1>1. /\ IsFiniteSet(at) /\ count \in Nat
      /\ \A i \in at : i \in 1 .. Len(Order) /\ Order[i] \in S
  <2>1. Len(Order) \in Nat /\ DOMAIN Order = 1 .. Len(Order)
    BY LenProperties
  <2>2. at \in SUBSET (1 .. Len(Order)) /\ IsFiniteSet(1 .. Len(Order))
    BY <2>1, FS_Interval
  <2>3. IsFiniteSet(at)
    BY <2>2, FS_Subset
  <2> QED BY <2>1, <2>3, FS_CardinalityType
<1>2. ASSUME NEW i \in at
      PROVE  IsFiniteSet(upTo(i)) /\ Cardinality(upTo(i)) \in 1 .. count
  <2>1. upTo(i) \in SUBSET at /\ i \in upTo(i)
    BY <1>1
  <2> HIDE DEF at, upTo
  <2>2. IsFiniteSet(upTo(i)) /\ Cardinality(upTo(i)) <= count
    BY <1>1, <2>1, FS_Subset
  <2>3. Cardinality(upTo(i)) \in Nat /\ Cardinality(upTo(i)) # 0
    BY <2>1, <2>2, FS_CardinalityType, FS_EmptySet
  <2> QED BY <1>1, <2>2, <2>3
<1>3. ASSUME NEW i \in at, NEW j \in at, i < j
      PROVE  Cardinality(upTo(i)) # Cardinality(upTo(j))
  <2>1. upTo(i) \in SUBSET upTo(j) /\ j \in upTo(j) /\ j \notin upTo(i)
    BY <1>1, <1>3
  <2> HIDE DEF upTo
  <2> QED BY <1>2, <2>1, FS_Subset
<1>4. rank \in Injection(at, 1 .. count)
  <2>1. \A i, j \in at : rank[i] = rank[j] => i = j
    <3> SUFFICES ASSUME NEW i \in at, NEW j \in at, i # j
                 PROVE  Cardinality(upTo(i)) # Cardinality(upTo(j))
      OBVIOUS
    <3>1. i < j \/ j < i
      BY <1>1
    <3> QED BY <1>3, <3>1
  <2>2. rank \in [at -> 1 .. count]
    BY <1>2
  <2> HIDE DEF rank, at
  <2> QED BY <2>1, <2>2 DEF Injection, IsInjective
<1>5. \A k \in 1 .. count : \E i \in at : Cardinality(upTo(i)) = k
  <2>1. IsFiniteSet(1 .. count) /\ Cardinality(1 .. count) = count
    BY <1>1, FS_Interval
  <2>2. rank \in Surjection(at, 1 .. count)
    <3> HIDE DEF rank, at
    <3> QED BY <1>4, <2>1, FS_Injection
  <2>3. \A i \in at : rank[i] = Cardinality(upTo(i))
    OBVIOUS
  <2> HIDE DEF rank, at, upTo
  <2> QED BY <2>2, <2>3 DEF Surjection
<1> DEFINE place(k) == CHOOSE i \in at : Cardinality(upTo(i)) = k
           list == [k \in 1 .. count |-> Order[place(k)]]
<1>6. InOrder(S) = list
  BY DEF InOrder
<1>7. \A k \in 1 .. count : place(k) \in at /\ Cardinality(upTo(place(k))) = k
  BY <1>5
<1> HIDE DEF place
<1>8. ASSUME NEW i \in at
      PROVE  \E k \in 1 .. count : place(k) = i
  <2> DEFINE k == Cardinality(upTo(i))
  <2>1. k \in 1 .. count
    BY <1>2
  <2>2. place(k) \in at /\ rank[place(k)] = k /\ rank[i] = k
    BY <1>7, <2>1
  <2> HIDE DEF k, rank, at
  <2>3. place(k) = i
    BY <1>4, <2>2 DEF Injection, IsInjective
  <2> QED BY <2>1, <2>3
<1>9. list \in Seq(Node) /\ DOMAIN list = 1 .. count
  <2>1. \A k \in 1 .. count : Order[place(k)] \in Node
    BY <1>1, <1>7
  <2> QED BY <1>1, <2>1
<1>10. Range(list) = S
  <2>1. ASSUME NEW k \in 1 .. count
        PROVE  list[k] \in S
    BY <1>1, <1>7
  <2>2. ASSUME NEW n \in S
        PROVE  \E k \in 1 .. count : list[k] = n
    <3>1. PICK i \in at : Order[i] = n
      BY DEF Range
    <3> QED BY <1>8, <3>1
  <2> QED BY <1>9, <2>1, <2>2 DEF Range
<1>11. Distinct(list)
  <2> SUFFICES ASSUME NEW k \in 1 .. count, NEW l \in 1 .. count, list[k] = list[l]
               PROVE  k = l
    BY <1>9 DEF Distinct
  <2>1. place(k) = place(l)
    BY <1>7
  <2> QED BY <1>7, <2>1
<1> QED BY <1>6, <1>9, <1>10, <1>11
-----------------------------------------------------------------------------
(***************************************************************************)
(* What taking from a queue and adding to it does to what it holds.        *)
(***************************************************************************)
LEMMA TakeFirst ==
  ASSUME NEW S, NEW s \in Seq(S), s # <<>>, Distinct(s)
  PROVE  /\ Head(s) \in S /\ Tail(s) \in Seq(S)
         /\ Range(Tail(s)) = Range(s) \ {Head(s)}
         /\ Head(s) \in Range(s) /\ Distinct(Tail(s))
<1>1. /\ Len(s) \in Nat \ {0} /\ DOMAIN s = 1 .. Len(s)
      /\ Head(s) = s[1] /\ s[1] \in S
      /\ Tail(s) \in Seq(S) /\ DOMAIN Tail(s) = 1 .. Len(s) - 1
      /\ \A i \in 1 .. Len(s) - 1 : Tail(s)[i] = s[i + 1]
  BY EmptySeq, HeadTailProperties
<1>2. ASSUME NEW x \in Range(Tail(s))
      PROVE  x \in Range(s) \ {Head(s)}
  <2>1. PICK i \in 1 .. Len(s) - 1 : x = s[i + 1]
    BY <1>1, <1>2 DEF Range
  <2>2. i + 1 \in 1 .. Len(s) /\ i + 1 # 1
    BY <1>1
  <2> QED BY <1>1, <2>1, <2>2 DEF Range, Distinct
<1>3. ASSUME NEW x \in Range(s), x # Head(s)
      PROVE  x \in Range(Tail(s))
  <2>1. PICK i \in 1 .. Len(s) : x = s[i]
    BY <1>1 DEF Range
  <2>2. i - 1 \in 1 .. Len(s) - 1 /\ Tail(s)[i - 1] = s[i]
    <3>1. i # 1
      BY <1>1, <1>3, <2>1
    <3>2. i - 1 \in 1 .. Len(s) - 1 /\ (i - 1) + 1 = i
      BY <1>1, <3>1
    <3> QED BY <1>1, <3>2
  <2> QED BY <1>1, <2>1, <2>2 DEF Range
<1>4. Head(s) \in Range(s)
  BY <1>1 DEF Range
<1>5. Distinct(Tail(s))
  BY <1>1 DEF Distinct
<1> QED BY <1>1, <1>2, <1>3, <1>4, <1>5

LEMMA AddToEnd ==
  ASSUME NEW S, NEW s \in Seq(S), NEW t \in Seq(S),
         Distinct(s), Distinct(t), Range(s) \cap Range(t) = {}
  PROVE  /\ s \o t \in Seq(S)
         /\ Range(s \o t) = Range(s) \cup Range(t)
         /\ Distinct(s \o t)
<1> DEFINE m == Len(s)
           n == Len(t)
<1>1. /\ m \in Nat /\ n \in Nat /\ DOMAIN s = 1 .. m /\ DOMAIN t = 1 .. n
      /\ s \o t \in Seq(S) /\ DOMAIN (s \o t) = 1 .. m + n
      /\ \A i \in 1 .. m : (s \o t)[i] = s[i]
      /\ \A i \in m + 1 .. m + n : (s \o t)[i] = t[i - m]
  BY ConcatProperties
<1> DEFINE u == s \o t
<1> HIDE DEF m, n, u
<1>2. \A i \in 1 .. m : u[i] = s[i] /\ i \in 1 .. m + n
  BY <1>1 DEF u
<1>6. ASSUME NEW i \in 1 .. n
      PROVE  u[m + i] = t[i] /\ m + i \in 1 .. m + n
  <2>1. m + i \in m + 1 .. m + n /\ (m + i) - m = i
    BY <1>1
  <2> QED BY <1>1, <2>1 DEF u
<1>3. \A i \in 1 .. m + n : i \in 1 .. m \/ \E k \in 1 .. n : i = m + k
  <2> SUFFICES ASSUME NEW i \in 1 .. m + n, i \notin 1 .. m
               PROVE  \E k \in 1 .. n : i = m + k
    OBVIOUS
  <2>1. i - m \in 1 .. n /\ i = m + (i - m)
    BY <1>1
  <2> QED BY <2>1
<1>4. Range(u) = Range(s) \cup Range(t)
  <2>1. Range(u) = {u[i] : i \in 1 .. m + n}
    BY <1>1 DEF Range, u
  <2>2. Range(s) = {s[i] : i \in 1 .. m} /\ Range(t) = {t[i] : i \in 1 .. n}
    BY <1>1 DEF Range
  <2> QED BY <1>2, <1>3, <1>6, <2>1, <2>2
<1>5. Distinct(u)
  <2> SUFFICES ASSUME NEW i \in 1 .. m + n, NEW j \in 1 .. m + n, u[i] = u[j]
               PROVE  i = j
    BY <1>1 DEF Distinct, u
  <2>1. \A a \in 1 .. m, b \in 1 .. n : s[a] # t[b]
    BY <1>1 DEF Range
  <2>2. \A a, b \in 1 .. m : s[a] = s[b] => a = b
    BY <1>1 DEF Distinct
  <2>3. \A a, b \in 1 .. n : t[a] = t[b] => a = b
    BY <1>1 DEF Distinct
  <2> QED BY <1>2, <1>3, <1>6, <2>1, <2>2, <2>3
<1> QED BY <1>1, <1>4, <1>5 DEF u

LEMMA AddOne ==
  ASSUME NEW S, NEW s \in Seq(S), NEW x \in S, Distinct(s), x \notin Range(s)
  PROVE  /\ Append(s, x) \in Seq(S)
         /\ Len(s) \in Nat /\ DOMAIN s = 1 .. Len(s)
         /\ DOMAIN Append(s, x) = 1 .. Len(s) + 1
         /\ \A i \in 1 .. Len(s) : Append(s, x)[i] = s[i]
         /\ Append(s, x)[Len(s) + 1] = x
         /\ Range(Append(s, x)) = Range(s) \cup {x}
         /\ Distinct(Append(s, x))
<1> DEFINE m == Len(s)
           u == Append(s, x)
<1>1. /\ m \in Nat /\ DOMAIN s = 1 .. m
      /\ u \in Seq(S) /\ DOMAIN u = 1 .. m + 1
      /\ \A i \in 1 .. m : u[i] = s[i]
      /\ u[m + 1] = x
  BY AppendProperties
<1> HIDE DEF m, u
<1>2. \A i \in 1 .. m + 1 : i \in 1 .. m \/ i = m + 1
  BY <1>1
<1>3. m + 1 \in 1 .. m + 1 /\ \A i \in 1 .. m : i \in 1 .. m + 1
  BY <1>1
<1>4. Range(u) = Range(s) \cup {x}
  BY <1>1, <1>2, <1>3 DEF Range
<1>5. Distinct(u)
  <2>1. \A i \in 1 .. m : s[i] # x
    BY <1>1 DEF Range
  <2> QED BY <1>1, <1>2, <2>1 DEF Distinct
<1> QED BY <1>1, <1>4, <1>5 DEF m, u
-----------------------------------------------------------------------------
(***************************************************************************)
(* How often m names a node that is not listed is a natural number; it is  *)
(* lowered by taking n, as often as m names n.                             *)
(***************************************************************************)
LEMMA PendingIsCounted ==
  ASSUME SearchTypes, NEW m \in Node
  PROVE  /\ IsFiniteSet(Pending(m)) /\ Cardinality(Pending(m)) \in Nat
         /\ Cardinality(Pending(m)) = 0 <=> DepSet(m) \cap Node \subseteq Range(out)
<1>1. deps[m] \in Seq(Node \cup Missing) /\ DOMAIN deps[m] = 1 .. Len(deps[m])
  BY LenProperties DEF SearchTypes
<1>2. IsFiniteSet(DOMAIN deps[m])
  BY <1>1, LenProperties, FS_Interval
<1>3. Pending(m) \in SUBSET DOMAIN deps[m]
  BY DEF Pending
<1>4. IsFiniteSet(Pending(m)) /\ Cardinality(Pending(m)) \in Nat
      /\ (Cardinality(Pending(m)) = 0 <=> Pending(m) = {})
  BY <1>2, <1>3, FS_Subset, FS_CardinalityType, FS_EmptySet
<1>5. Pending(m) = {} <=> DepSet(m) \cap Node \subseteq Range(out)
  BY DEF Pending, DepSet, Range
<1> QED BY <1>4, <1>5

LEMMA ReleaseCounts ==
  ASSUME SearchTypes, NEW n \in Node \ Range(out), UNCHANGED deps,
         Range(out)' = Range(out) \cup {n}, NEW m \in Node
  PROVE  /\ Cardinality(Pending(m)') = Cardinality(Pending(m)) - Named(m, n)
         /\ Cardinality(Pending(m)') \in Nat
         /\ Cardinality(Pending(m)) = 0 => Cardinality(Pending(m)') = 0
         /\ n \notin DepSet(m) => Cardinality(Pending(m)') = Cardinality(Pending(m))
         /\ n \in DepSet(m) => Cardinality(Pending(m)) # 0
<1> DEFINE named == {i \in DOMAIN deps[m] : deps[m][i] = n}
<1>1. Pending(m)' = Pending(m) \ named /\ named \subseteq Pending(m)
  BY DEF Pending
<1>2. IsFiniteSet(Pending(m)) /\ Cardinality(Pending(m)) \in Nat
  BY PendingIsCounted
<1>3. Pending(m) \cap named = named
  BY <1>1
<1>4. /\ IsFiniteSet(Pending(m) \ named)
      /\ Cardinality(Pending(m) \ named) = Cardinality(Pending(m)) - Cardinality(named)
  <2> HIDE DEF named
  <2> QED BY <1>2, <1>3, FS_Difference
<1>5. Named(m, n) = Cardinality(named)
  BY DEF Named
<1>6. Cardinality(Pending(m)') \in Nat
  BY <1>1, <1>4, FS_CardinalityType
<1>7. Cardinality(Pending(m)) = 0 => Pending(m)' = Pending(m)
  BY <1>1, <1>2, FS_EmptySet
<1>8. n \notin DepSet(m) => Pending(m)' = Pending(m)
  BY <1>1 DEF DepSet, Range
<1>9. n \in DepSet(m) => Pending(m) # {}
  BY DEF DepSet, Range, Pending
<1> HIDE DEF named
<1> QED BY <1>1, <1>2, <1>4, <1>5, <1>6, <1>7, <1>8, <1>9, FS_EmptySet
LEMMA StartTopoStep ==
  ASSUME SearchTypes, TopoInv, StartTopo
  PROVE  TopoInv'
<1>1. /\ phase = "cycle" /\ phase' = "topo" /\ indeg' = InDegree
      /\ queue' = InOrder({m \in Node : indeg'[m] = 0})
      /\ deps' = deps /\ out' = out /\ out = <<>>
  BY DEF StartTopo, TopoInv, ListInv
<1>2. Range(out)' = {} /\ Range(out) = {} /\ DOMAIN out' = {}
  BY <1>1 DEF Range
<1>3. ASSUME NEW m \in Node
      PROVE  indeg'[m] \in Nat /\ indeg'[m] = Cardinality(Pending(m)')
  <2>1. Pending(m)' = {i \in DOMAIN deps[m] : Has(deps[m][i])} /\ Pending(m)' = Pending(m)
    BY <1>1, <1>2 DEF Pending, Has
  <2> QED BY <1>1, <2>1, PendingIsCounted DEF InDegree
<1>4. indeg' \in [Node -> Nat]
  BY <1>1, <1>3 DEF InDegree
<1>5. /\ queue' \in Seq(Node) /\ Distinct(queue)'
      /\ Range(queue)' = {m \in Node : indeg'[m] = 0}
  <2> DEFINE free == {m \in Node : indeg'[m] = 0}
  <2>1. free \in SUBSET Node /\ queue' = InOrder(free)
    BY <1>1
  <2> HIDE DEF free
  <2>2. queue' \in Seq(Node) /\ Range(queue') = free /\ Distinct(queue')
    BY <2>1, InOrderLists
  <2> QED BY <2>2 DEF free, Distinct
<1>6. TopoTypes'
  BY <1>1, <1>4, <1>5 DEF TopoInv, TopoTypes
<1>7. CountInv'
  BY <1>2, <1>3, <1>5 DEF CountInv
<1>8. ListInv'
  BY <1>1, <1>2, <1>5 DEF ListInv, Distinct
<1> QED BY <1>6, <1>7, <1>8 DEF TopoInv

LEMMA TakeNodeStep ==
  ASSUME SearchTypes, TopoInv, TakeNode
  PROVE  TopoInv'
<1> DEFINE n == Head(queue)
           freed == {m \in Node : n \in DepSet(m) /\ indeg'[m] = 0}
<1>1. /\ phase = "topo" /\ phase' = "topo" /\ deps' = deps /\ queue # <<>>
      /\ out' = Append(out, n) /\ indeg' = Released(n)
      /\ queue' = Tail(queue) \o InOrder(freed)
  BY DEF TakeNode
<1>2. /\ indeg \in [Node -> Nat] /\ queue \in Seq(Node) /\ out \in Seq(Node)
      /\ Distinct(out) /\ Distinct(queue) /\ Range(out) \cap Range(queue) = {}
      /\ \A i \in DOMAIN out :
           DepSet(out[i]) \cap Node \subseteq {out[j] : j \in 1 .. i - 1}
      /\ \A m \in Node : indeg[m] = Cardinality(Pending(m))
      /\ Range(out) \cup Range(queue) = {m \in Node : indeg[m] = 0}
  BY <1>1 DEF TopoInv, TopoTypes, ListInv, CountInv
<1>3. /\ n \in Node /\ Tail(queue) \in Seq(Node)
      /\ Range(Tail(queue)) = Range(queue) \ {n}
      /\ n \in Range(queue) /\ Distinct(Tail(queue))
  BY <1>1, <1>2, TakeFirst
<1> HIDE DEF n
<1>4. n \in Node \ Range(out)
  BY <1>2, <1>3
<1>5. /\ Append(out, n) \in Seq(Node)
      /\ Len(out) \in Nat /\ DOMAIN out = 1 .. Len(out)
      /\ DOMAIN Append(out, n) = 1 .. Len(out) + 1
      /\ \A i \in 1 .. Len(out) : Append(out, n)[i] = out[i]
      /\ Append(out, n)[Len(out) + 1] = n
      /\ Range(Append(out, n)) = Range(out) \cup {n}
      /\ Distinct(Append(out, n))
  BY <1>2, <1>4, AddOne
<1>6. Range(out)' = Range(out) \cup {n}
  BY <1>1, <1>5
<1>7. ASSUME NEW m \in Node
      PROVE  /\ indeg'[m] = Cardinality(Pending(m)') /\ indeg'[m] \in Nat
             /\ indeg[m] = 0 => indeg'[m] = 0
             /\ n \notin DepSet(m) => indeg'[m] = indeg[m]
             /\ n \in DepSet(m) => indeg[m] # 0
  <2>1. indeg'[m] = indeg[m] - Named(m, n)
    BY <1>1 DEF Released
  <2>2. indeg[m] = Cardinality(Pending(m))
    BY <1>2
  <2> QED BY <1>1, <1>4, <1>6, <2>1, <2>2, ReleaseCounts
<1>8. indeg' \in [Node -> Nat]
  BY <1>1, <1>7 DEF Released
<1>9. freed \in SUBSET Node /\ freed \cap (Range(out) \cup Range(queue)) = {}
  BY <1>2, <1>7
<1>10. /\ InOrder(freed) \in Seq(Node) /\ Range(InOrder(freed)) = freed
       /\ Distinct(InOrder(freed))
  <2> HIDE DEF freed
  <2> QED BY <1>9, InOrderLists
<1>11. /\ queue' \in Seq(Node) /\ Distinct(queue')
       /\ Range(queue') = (Range(queue) \ {n}) \cup freed
  <2> DEFINE added == InOrder(freed)
             rest == Tail(queue)
  <2>1. /\ rest \in Seq(Node) /\ added \in Seq(Node) /\ Distinct(rest) /\ Distinct(added)
        /\ Range(rest) = Range(queue) \ {n} /\ Range(added) = freed
        /\ Range(rest) \cap Range(added) = {} /\ queue' = rest \o added
    BY <1>1, <1>3, <1>9, <1>10
  <2> HIDE DEF added, rest, freed
  <2> QED BY <2>1, AddToEnd
<1>12. TopoTypes'
  BY <1>1, <1>5, <1>8, <1>11 DEF TopoTypes
<1>13. CountInv'
  <2>1. Range(out)' \cup Range(queue') = {m \in Node : indeg'[m] = 0}
    BY <1>2, <1>3, <1>6, <1>7, <1>11
  <2> QED BY <1>7, <2>1 DEF CountInv
<1>14. ListInv'
  <2>1. Distinct(out)' /\ Distinct(queue)' /\ Range(out)' \cap Range(queue)' = {}
    <3>1. Distinct(out)' /\ Distinct(queue)'
      BY <1>1, <1>5, <1>11 DEF Distinct
    <3> QED BY <1>2, <1>3, <1>6, <1>9, <1>11, <3>1
  <2>2. ASSUME NEW i \in DOMAIN out'
        PROVE  DepSet(out'[i]) \cap Node \subseteq {out'[j] : j \in 1 .. i - 1}
    <3>1. CASE i = Len(out) + 1
      <4>1. DepSet(n) \cap Node \subseteq Range(out)
        BY <1>2, <1>3, PendingIsCounted
      <4>2. out'[i] = n /\ i - 1 = Len(out)
        BY <1>1, <1>5, <3>1
      <4>3. Range(out) = {out'[j] : j \in 1 .. i - 1}
        BY <1>1, <1>5, <4>2 DEF Range
      <4> QED BY <4>1, <4>2, <4>3
    <3>2. CASE i # Len(out) + 1
      <4>1. i \in 1 .. Len(out) /\ out'[i] = out[i]
        BY <1>1, <1>5, <3>2
      <4>2. \A j \in 1 .. i - 1 : out'[j] = out[j]
        BY <1>1, <1>5, <4>1
      <4>3. DepSet(out[i]) \cap Node \subseteq {out[j] : j \in 1 .. i - 1}
        BY <1>2, <1>5, <4>1
      <4> QED BY <4>1, <4>2, <4>3
    <3> QED BY <3>1, <3>2
  <2>3. \A i \in DOMAIN out' :
          Range(deps'[out'[i]]) \cap Node \subseteq {out'[j] : j \in 1 .. i - 1}
    BY <1>1, <2>2 DEF DepSet
  <2> QED BY <1>1, <2>1, <2>3 DEF ListInv, DepSet
<1> QED BY <1>12, <1>13, <1>14 DEF TopoInv
(***************************************************************************)
(* The invariant of Topo is kept by every step.                            *)
(***************************************************************************)
LEMMA TopoStep ==
  ASSUME SearchTypes, TopoInv, [Next]_vars
  PROVE  TopoInv'
<1> DEFINE SameTopo == /\ UNCHANGED <<deps, indeg, queue, out>>
                       /\ \/ phase' = phase
                          \/ phase = "cycle" /\ phase' = "cyclic"
                          \/ phase = "topo" /\ phase' = "sorted" /\ queue = <<>>
<1>1. ASSUME SameTopo
      PROVE  TopoInv'
  <2>1. TopoTypes'
    BY <1>1 DEF TopoInv, TopoTypes
  <2>2. CountInv'
    BY <1>1 DEF TopoInv, CountInv, Pending
  <2>3. ListInv'
    BY <1>1 DEF TopoInv, ListInv, Distinct, DepSet
  <2> QED BY <2>1, <2>2, <2>3 DEF TopoInv
<1>2. ASSUME NEW d \in Node \cup Missing, SkipDep(d) \/ Descend(d) \/ FindCycle(d)
      PROVE  SameTopo
  BY <1>2 DEF SkipDep, Descend, FindCycle, Visiting, topoVars
<1>3. CASE NextRoot \/ Return
  BY <1>1, <1>3 DEF NextRoot, Return, topoVars
<1>4. CASE Sorted
  BY <1>1, <1>4 DEF Sorted, topoVars
<1>5. CASE UNCHANGED vars
  BY <1>1, <1>5 DEF vars, topoVars
<1>6. CASE \E d \in Node \cup Missing : SkipDep(d) \/ Descend(d) \/ FindCycle(d)
  <2> HIDE DEF SameTopo
  <2> QED BY <1>1, <1>2, <1>6
<1> QED BY <1>3, <1>4, <1>5, <1>6, StartTopoStep, TakeNodeStep DEF Next

THEOREM TopoInvHolds == Spec => []TopoInv
<1>1. Init => TopoInv
  BY DEF Init, TopoInv, TopoTypes, CountInv, ListInv, Distinct, Range
<1>2. Inv /\ TopoInv /\ [Next]_vars => TopoInv'
  BY TopoStep DEF Inv
<1> QED BY <1>1, <1>2, InvHolds, PTL DEF Spec

(***************************************************************************)
(* The type invariant: no in-degree falls below zero, for every graph.     *)
(***************************************************************************)
THEOREM TypeCorrect == Spec => []TypeOK
<1> DEFINE Own == deps \in [Node -> DepLists] /\ cycle \in Seq(Node)
<1>1. Init => Own
  BY DEF Init
<1>2. Inv /\ Own /\ [Next]_vars => Own'
  <2> SUFFICES ASSUME Inv, Own, [Next]_vars
               PROVE  Own'
    OBVIOUS
  <2>1. ASSUME NEW d \in Node \cup Missing, FindCycle(d)
        PROVE  Own'
    <3>1. /\ deps' = deps /\ d \in Node /\ color[d] = "gray" /\ stack # <<>>
          /\ cycle' = CycleThrough(d)
      BY <2>1 DEF FindCycle, Visiting, Has
    <3>2. stack \in Seq(Node) /\ Len(stack) \in Nat /\ DOMAIN stack = 1 .. Len(stack)
          /\ \A i \in 1 .. Len(stack) : stack[i] \in Node
      BY <3>1, TopIsLast DEF Inv, SearchTypes
    <3>3. \E k \in DOMAIN stack : stack[k] = d
      BY <3>1, <3>2 DEF Inv, PathInv
    <3>4. PICK i \in 1 .. Len(stack) : CycleThrough(d) = Append(SubSeq(stack, i, Len(stack)), d)
      BY <3>2, <3>3 DEF CycleThrough
    <3>5. \A k \in i .. Len(stack) : stack[k] \in Node
      BY <3>2
    <3>6. SubSeq(stack, i, Len(stack)) \in Seq(Node)
      BY <3>2, <3>5, SubSeqProperties
    <3> QED BY <3>1, <3>4, <3>6
  <2>2. CASE UNCHANGED <<deps, cycle>>
    BY <2>2
  <2> QED BY <2>1, <2>2, Steps DEF NextRoot, Return, StartTopo, AfterSearch, SkipDep,
          Descend, Visiting, cycleVars
<1>3. Inv /\ TopoInv /\ Own => TypeOK
  BY DEF Inv, SearchTypes, TopoInv, TopoTypes, TypeOK
<1> QED BY <1>1, <1>2, <1>3, InvHolds, TopoInvHolds, PTL DEF Spec

(***************************************************************************)
(* Of every graph: Topo lists no node before its dependencies nor twice,   *)
(* and its last error (graph.go:133) is never returned.                    *)
(***************************************************************************)
THEOREM TopoIsOrderHolds == Spec => []TopoIsOrder
<1>1. ASSUME Inv, TopoInv
      PROVE  TopoIsOrder
  <2>1. Cardinality(Range(out)) = Len(out)
    <3>1. /\ Len(out) \in Nat /\ out \in [1 .. Len(out) -> Range(out)]
          /\ DOMAIN out = 1 .. Len(out)
      BY <1>1, LenProperties DEF TopoInv, TopoTypes, Range
    <3>2. out \in Bijection(1 .. Len(out), Range(out))
      BY <1>1, <3>1 DEF TopoInv, ListInv, Distinct, Bijection, Injection, IsInjective,
           Surjection, Range
    <3> QED BY <3>1, <3>2, FS_CountingElements DEF ExistsBijection
  <2>2. ASSUME phase = "sorted"
        PROVE  Range(out) = Node
    <3>1. Range(out) = {m \in Node : indeg[m] = 0} /\ Acyclic(Node)
      <4>1. queue = <<>>
        BY <1>1, <2>2 DEF TopoInv, ListInv
      <4>2. Range(queue) = {}
        BY <4>1 DEF Range
      <4> QED BY <1>1, <2>2, <4>2 DEF Inv, BlackInv, RootsInv, TopoInv, CountInv
    <3>2. SUFFICES ASSUME Node \ Range(out) # {}
                   PROVE  FALSE
      BY <3>1
    <3>3. PICK m \in Node \ Range(out) : DepSet(m) \cap (Node \ Range(out)) = {}
      BY <3>1, <3>2 DEF Acyclic
    <3>4. Cardinality(Pending(m)) = 0
      BY <1>1, <3>3, PendingIsCounted DEF Inv
    <3>5. indeg[m] = 0
      BY <1>1, <2>2, <3>4 DEF TopoInv, CountInv
    <3> QED BY <3>1, <3>3, <3>5
  <2> QED BY <1>1, <2>1, <2>2 DEF TopoIsOrder, TopoInv, ListInv
<1> QED BY <1>1, InvHolds, TopoInvHolds, PTL

(***************************************************************************)
(* Of every graph: the queue of Topo holds what Ready picks after the      *)
(* nodes that are listed.                                                  *)
(***************************************************************************)
THEOREM QueueIsReadyHolds == Spec => []QueueIsReady
<1>1. ASSUME Inv, TopoInv, phase = "topo", Accepted
      PROVE  Range(queue) = Range(Ready(Range(out)))
  <2> DEFINE next == {m \in Node : m \notin Range(out) /\ DepSet(m) \subseteq Range(out)}
  <2>1. Range(Ready(Range(out))) = next
    <3>1. next \in SUBSET Node /\ Ready(Range(out)) = InOrder(next)
      BY DEF Ready
    <3> HIDE DEF next
    <3> QED BY <3>1, InOrderLists
  <2>2. ASSUME NEW m \in Node
        PROVE  indeg[m] = 0 <=> DepSet(m) \subseteq Range(out)
    <3>1. DepSet(m) \cap Node = DepSet(m)
      BY <1>1 DEF Accepted, Referenced
    <3>2. indeg[m] = Cardinality(Pending(m))
      BY <1>1 DEF TopoInv, CountInv
    <3> QED BY <1>1, <3>1, <3>2, PendingIsCounted DEF Inv
  <2>3. Range(out) \cup Range(queue) = {m \in Node : indeg[m] = 0}
        /\ Range(out) \cap Range(queue) = {}
    BY <1>1 DEF TopoInv, CountInv, ListInv
  <2> QED BY <2>1, <2>2, <2>3
<1>2. Inv /\ TopoInv => QueueIsReady
  BY <1>1 DEF QueueIsReady
<1> QED BY <1>2, InvHolds, TopoInvHolds, PTL
=============================================================================
