------------------------------ MODULE LogProofs ------------------------------
(***************************************************************************)
(* A line in the log shows nothing that is below a private key, for every  *)
(* tree a body can be. redact and what is below a node are recursive: the  *)
(* first section proves, by induction over the height of a node, that such *)
(* a recursion has a solution, and the rest is induction over the tree.    *)
(***************************************************************************)
EXTENDS DeliveryProofs, WellFoundedInduction

LEMMA LeastOf ==
  ASSUME NEW T \in SUBSET Nat, T # {}
  PROVE  \E n \in T : \A m \in T : n <= m
<1> DEFINE R == OpToRel(<, Nat)
<1>1. IsWellFoundedOn(R, Nat)
  BY NatLessThanWellFounded
<1>2. \A a, b \in Nat : <<a, b>> \in R <=> a < b
  BY DEF OpToRel
<1> HIDE DEF R
<1>3. PICK x \in T : \A y \in T : ~(<<y, x>> \in R)
  BY <1>1, WFMin
<1>4. ASSUME NEW m \in T PROVE x <= m
  <2>1. x \in Nat /\ m \in Nat
    OBVIOUS
  <2>2. ~(m < x)
    BY <1>2, <1>3, <2>1
  <2>3. QED
    BY <2>1, <2>2
<1>5. QED
  BY <1>4

(* Induction over a set instead of a predicate.                            *)
LEMMA SetInduction ==
  ASSUME NEW T \in SUBSET Nat, 0 \in T, \A n \in T : n + 1 \in T
  PROVE  T = Nat
<1> SUFFICES ASSUME T # Nat PROVE FALSE
  OBVIOUS
<1>1. PICK n \in Nat \ T : \A m \in Nat \ T : n <= m
  <2>1. Nat \ T # {} /\ Nat \ T \in SUBSET Nat
    OBVIOUS
  <2>2. QED
    BY <2>1, LeastOf
<1>2. n # 0 /\ n - 1 \in Nat
  BY <1>1
<1>3. n - 1 \in T
  BY <1>1, <1>2
<1>4. QED
  BY <1>1, <1>2, <1>3

LEMMA Tree ==
  ASSUME PayloadAssumption, NEW node \in Nodes
  PROVE  /\ Height[node] \in Nat
         /\ \A child \in Children(node) : child \in Nodes /\ Height[child] < Height[node]
         /\ \A other \in Nodes : Children(node) \cap Children(other) # {} => node = other
BY DEF PayloadAssumption

(* A set of nodes with each node whose children it has is all of them.     *)
LEMMA NodeInduction ==
  ASSUME PayloadAssumption, NEW T \in SUBSET Nodes,
         \A node \in Nodes : Children(node) \subseteq T => node \in T
  PROVE  T = Nodes
<1> SUFFICES ASSUME NEW stray \in Nodes \ T PROVE FALSE
  OBVIOUS
<1> DEFINE H == {Height[node] : node \in Nodes \ T}
<1>1. H \in SUBSET Nat /\ H # {}
  BY Tree
<1>2. PICK node \in Nodes \ T : \A m \in H : Height[node] <= m
  <2>1. PICK h \in H : \A m \in H : h <= m
    <3> HIDE DEF H
    <3>1. QED
      BY <1>1, LeastOf
  <2>2. QED
    BY <2>1
<1>3. PICK child \in Children(node) : child \notin T
  BY <1>2
<1>4. child \in Nodes \ T /\ Height[child] < Height[node] /\ Height[node] \in Nat
      /\ Height[child] \in Nat
  BY <1>3, Tree
<1>5. Height[node] <= Height[child]
  BY <1>2, <1>4
<1>6. QED
  BY <1>4, <1>5

-----------------------------------------------------------------------------
(* D[node][f] is what a recursive definition makes of node from the values *)
(* f has at its children.                                                  *)
Local(D, S) ==
  /\ D \in [Nodes -> [[Nodes -> S] -> S]]
  /\ \A node \in Nodes, f, g \in [Nodes -> S] :
       (\A child \in Children(node) : f[child] = g[child]) => D[node][f] = D[node][g]

LEMMA LocalUse ==
  ASSUME NEW S, NEW D, Local(D, S), NEW node \in Nodes,
         NEW f \in [Nodes -> S], NEW g \in [Nodes -> S],
         \A child \in Children(node) : f[child] = g[child]
  PROVE  D[node][f] = D[node][g]
BY Zenon DEF Local

Solves(f, D, n) == \A node \in Nodes : Height[node] < n => f[node] = D[node][f]

LEMMA SolvedToAnyHeight ==
  ASSUME PayloadAssumption, NEW S, S # {}, NEW D, Local(D, S), NEW n \in Nat
  PROVE  \E f \in [Nodes -> S] : Solves(f, D, n)
<1> DEFINE T == {m \in Nat : \E f \in [Nodes -> S] : Solves(f, D, m)}
<1>1. 0 \in T
  <2>1. PICK s : s \in S
    OBVIOUS
  <2>2. [node \in Nodes |-> s] \in [Nodes -> S]
    BY <2>1
  <2>3. \A node \in Nodes : ~(Height[node] < 0)
    BY Tree
  <2>4. QED
    BY <2>2, <2>3 DEF Solves
<1>2. ASSUME NEW m \in T PROVE m + 1 \in T
  <2>1. PICK f \in [Nodes -> S] : Solves(f, D, m)
    OBVIOUS
  <2>2. PICK g : g = [node \in Nodes |-> D[node][f]]
    OBVIOUS
  <2>3. g \in [Nodes -> S]
    BY <2>2 DEF Local
  <2>4. ASSUME NEW node \in Nodes, Height[node] < m + 1 PROVE g[node] = D[node][g]
    <3>1. ASSUME NEW child \in Children(node) PROVE f[child] = g[child]
      <4>1. child \in Nodes /\ Height[child] < m
        BY <2>4, Tree
      <4>2. QED
        BY <2>1, <2>2, <4>1 DEF Solves
    <3>2. D[node][f] = D[node][g]
      BY <2>3, <3>1, LocalUse
    <3>3. QED
      BY <2>2, <3>2
  <2>5. QED
    BY <2>3, <2>4 DEF Solves
<1>3. T = Nat
  <2>1. T \in SUBSET Nat
    OBVIOUS
  <2> HIDE DEF T
  <2>2. QED
    BY <1>1, <1>2, <2>1, SetInduction
<1>4. QED
  BY <1>3

LEMMA SolutionsAgree ==
  ASSUME PayloadAssumption, NEW S, NEW D, Local(D, S),
         NEW f \in [Nodes -> S], NEW g \in [Nodes -> S], NEW m \in Nat, NEW n \in Nat,
         Solves(f, D, m), Solves(g, D, n)
  PROVE  \A node \in Nodes : Height[node] < m /\ Height[node] < n => f[node] = g[node]
<1> DEFINE T == {node \in Nodes : Height[node] < m /\ Height[node] < n => f[node] = g[node]}
<1>1. ASSUME NEW node \in Nodes, Children(node) \subseteq T PROVE node \in T
  <2> SUFFICES ASSUME Height[node] < m, Height[node] < n PROVE f[node] = g[node]
    OBVIOUS
  <2>1. ASSUME NEW child \in Children(node) PROVE f[child] = g[child]
    BY <1>1, Tree
  <2>2. D[node][f] = D[node][g]
    BY <2>1, LocalUse
  <2>3. QED
    BY <2>2 DEF Solves
<1>2. T = Nodes
  <2>1. T \in SUBSET Nodes
    OBVIOUS
  <2> HIDE DEF T
  <2>2. QED
    BY <1>1, <2>1, NodeInduction
<1>3. QED
  BY <1>2

(* A recursion over the children of a node has a solution.                 *)
LEMMA RecursionHasSolution ==
  ASSUME PayloadAssumption, NEW S, S # {}, NEW D, Local(D, S)
  PROVE  \E f \in [Nodes -> S] : f = [node \in Nodes |-> D[node][f]]
<1> DEFINE Upto(n) == {f \in [Nodes -> S] : Solves(f, D, n)}
           At(node) == CHOOSE f : f \in Upto(Height[node] + 1)
<1>1. ASSUME NEW node \in Nodes PROVE At(node) \in Upto(Height[node] + 1)
  <2>1. Height[node] + 1 \in Nat
    BY Tree
  <2>2. \E f : f \in Upto(Height[node] + 1)
    BY <2>1, SolvedToAnyHeight
  <2>3. QED
    BY <2>2
<1> HIDE DEF At
<1>2. PICK F : F = [node \in Nodes |-> At(node)[node]]
  OBVIOUS
<1>3. F \in [Nodes -> S]
  BY <1>1, <1>2
<1>4. ASSUME NEW node \in Nodes PROVE F[node] = D[node][F]
  <2>1. PICK f \in [Nodes -> S] : f = At(node) /\ Solves(f, D, Height[node] + 1)
    BY <1>1
  <2>2. ASSUME NEW child \in Children(node) PROVE f[child] = F[child]
    <3>1. child \in Nodes /\ Height[child] < Height[node]
      BY Tree
    <3>2. PICK g \in [Nodes -> S] : g = At(child) /\ Solves(g, D, Height[child] + 1)
      BY <1>1, <3>1
    <3>3. Height[node] \in Nat /\ Height[child] \in Nat
      BY <3>1, Tree
    <3>4. f[child] = g[child]
      BY <2>1, <3>1, <3>2, <3>3, SolutionsAgree
    <3>5. QED
      BY <1>2, <3>1, <3>2, <3>4
  <2>3. f[node] = D[node][f]
    BY <2>1, Tree DEF Solves
  <2>4. D[node][f] = D[node][F]
    BY <1>3, <2>2, LocalUse
  <2>5. QED
    BY <1>2, <2>1, <2>3, <2>4
<1>5. QED
  BY <1>3, <1>4

-----------------------------------------------------------------------------
(* What is below a node.                                                   *)
LEMMA BelowUnfolds ==
  ASSUME PayloadAssumption
  PROVE  /\ Below \in [Nodes -> SUBSET Nodes]
         /\ \A node \in Nodes :
              Below[node] = {node} \cup UNION {Below[child] : child \in Children(node)}
<1> DEFINE S == SUBSET Nodes
           D == [node \in Nodes |-> [g \in [Nodes -> S] |->
                  {node} \cup UNION {g[child] : child \in Children(node)}]]
           Solution(f) == f = [node \in Nodes |->
                                 {node} \cup UNION {f[child] : child \in Children(node)}]
<1>1. ASSUME NEW node \in Nodes, NEW g \in [Nodes -> S]
      PROVE  /\ {node} \cup UNION {g[child] : child \in Children(node)} \in S
             /\ D[node][g] = {node} \cup UNION {g[child] : child \in Children(node)}
  BY Tree
<1>2. Local(D, S)
  <2>1. D \in [Nodes -> [[Nodes -> S] -> S]]
    BY <1>1
  <2>2. ASSUME NEW node \in Nodes, NEW f \in [Nodes -> S], NEW g \in [Nodes -> S],
               \A child \in Children(node) : f[child] = g[child]
        PROVE  D[node][f] = D[node][g]
    <3>1. {f[child] : child \in Children(node)} = {g[child] : child \in Children(node)}
      BY <2>2
    <3>2. QED
      BY <1>1, <3>1
  <2> HIDE DEF D, S
  <2>3. QED
    BY <2>1, <2>2 DEF Local
<1>3. PICK f \in [Nodes -> S] : f = [node \in Nodes |-> D[node][f]]
  <2>1. S # {}
    OBVIOUS
  <2> HIDE DEF D, S
  <2>2. QED
    BY <1>2, <2>1, RecursionHasSolution
<1>4. Solution(f)
  BY <1>1, <1>3
<1>5. Below = CHOOSE g : Solution(g)
  BY DEF Below
<1>6. Solution(Below)
  <2> HIDE DEF Solution
  <2>1. QED
    BY <1>4, <1>5
<1>7. \A node \in Nodes : Below[node] = {node} \cup UNION {Below[child] : child \in Children(node)}
  BY <1>6
<1>8. Below \in [Nodes -> SUBSET Nodes]
  <2>1. \A node \in Nodes : Below[node] \subseteq Nodes
    <3> DEFINE T == {node \in Nodes : Below[node] \subseteq Nodes}
    <3>1. ASSUME NEW node \in Nodes, Children(node) \subseteq T PROVE node \in T
      BY <1>7, <3>1
    <3>2. T \in SUBSET Nodes
      OBVIOUS
    <3> HIDE DEF T
    <3>3. T = Nodes
      BY <3>1, <3>2, NodeInduction
    <3>4. QED
      BY <3>3 DEF T
  <2>2. QED
    BY <1>6, <2>1
<1>9. QED
  BY <1>7, <1>8

LEMMA BelowSplits ==
  ASSUME PayloadAssumption, NEW node \in Nodes, NEW x \in Below[node]
  PROVE  /\ x \in Nodes
         /\ x = node \/ \E child \in Children(node) : child \in Nodes /\ x \in Below[child]
BY BelowUnfolds, Tree

LEMMA BelowJoins ==
  ASSUME PayloadAssumption, NEW node \in Nodes
  PROVE  /\ node \in Below[node]
         /\ \A child \in Children(node) : Below[child] \subseteq Below[node]
BY BelowUnfolds

LEMMA BelowIsLower ==
  ASSUME PayloadAssumption
  PROVE  \A node \in Nodes : \A x \in Below[node] : Height[x] <= Height[node]
<1> DEFINE T == {node \in Nodes : \A x \in Below[node] : Height[x] <= Height[node]}
<1>1. ASSUME NEW node \in Nodes, Children(node) \subseteq T PROVE node \in T
  <2>1. ASSUME NEW x \in Below[node] PROVE Height[x] <= Height[node]
    <3>1. x \in Nodes /\ Height[x] \in Nat /\ Height[node] \in Nat
      BY BelowSplits, Tree
    <3>2. CASE x = node
      BY <3>1, <3>2
    <3>3. ASSUME NEW child \in Children(node), child \in Nodes, x \in Below[child]
          PROVE  Height[x] <= Height[node]
      <4>1. Height[x] <= Height[child] /\ Height[child] < Height[node] /\ Height[child] \in Nat
        BY <1>1, <3>3, Tree
      <4>2. QED
        BY <3>1, <4>1
    <3>4. QED
      BY <3>2, <3>3, BelowSplits
  <2>2. QED
    BY <2>1
<1>2. T = Nodes
  <2>1. T \in SUBSET Nodes
    OBVIOUS
  <2> HIDE DEF T
  <2>2. QED
    BY <1>1, <2>1, NodeInduction
<1>3. QED
  BY <1>2

LEMMA BelowIsTransitive ==
  ASSUME PayloadAssumption
  PROVE  \A node \in Nodes : \A x \in Below[node] : Below[x] \subseteq Below[node]
<1> DEFINE T == {node \in Nodes : \A x \in Below[node] : Below[x] \subseteq Below[node]}
<1>1. ASSUME NEW node \in Nodes, Children(node) \subseteq T PROVE node \in T
  BY <1>1, BelowSplits, BelowJoins
<1>2. T = Nodes
  <2>1. T \in SUBSET Nodes
    OBVIOUS
  <2> HIDE DEF T
  <2>2. QED
    BY <1>1, <2>1, NodeInduction
<1>3. QED
  BY <1>2

(* Whatever is below a node and is not the node is a child of something    *)
(* below it.                                                               *)
LEMMA BelowHasParent ==
  ASSUME PayloadAssumption
  PROVE  \A node \in Nodes : \A x \in Below[node] \ {node} :
           \E parent \in Below[node] : x \in Children(parent)
<1> DEFINE T == {node \in Nodes : \A x \in Below[node] \ {node} :
                                    \E parent \in Below[node] : x \in Children(parent)}
<1>1. ASSUME NEW node \in Nodes, Children(node) \subseteq T PROVE node \in T
  <2>1. ASSUME NEW x \in Below[node], x # node
        PROVE  \E parent \in Below[node] : x \in Children(parent)
    <3>1. PICK child \in Children(node) : child \in Nodes /\ x \in Below[child]
      BY <2>1, BelowSplits
    <3>2. CASE x = child
      BY <3>2, BelowJoins
    <3>3. CASE x # child
      <4>1. PICK parent \in Below[child] : x \in Children(parent)
        BY <1>1, <3>1, <3>3
      <4>2. QED
        BY <4>1, BelowJoins
    <3>4. QED
      BY <3>2, <3>3
  <2>2. QED
    BY <2>1
<1>2. T = Nodes
  <2>1. T \in SUBSET Nodes
    OBVIOUS
  <2> HIDE DEF T
  <2>2. QED
    BY <1>1, <2>1, NodeInduction
<1>3. QED
  BY <1>2

(* Of two nodes with something in common below them, one is below the      *)
(* other: nothing is in two places of a tree.                              *)
LEMMA BelowIsNested ==
  ASSUME PayloadAssumption
  PROVE  \A a, b \in Nodes : Below[a] \cap Below[b] # {} => a \in Below[b] \/ b \in Below[a]
<1> DEFINE T == {a \in Nodes : \A b \in Nodes :
                   Below[a] \cap Below[b] # {} => a \in Below[b] \/ b \in Below[a]}
<1>1. ASSUME NEW a \in Nodes, Children(a) \subseteq T PROVE a \in T
  <2>1. ASSUME NEW b \in Nodes, NEW x \in Below[a], x \in Below[b]
        PROVE  a \in Below[b] \/ b \in Below[a]
    <3>1. CASE x = a
      BY <2>1, <3>1
    <3>2. CASE x # a
      <4>1. PICK child \in Children(a) : child \in Nodes /\ x \in Below[child]
        BY <3>2, BelowSplits
      <4>2. child \in Below[b] \/ b \in Below[child]
        BY <1>1, <2>1, <4>1
      <4>3. CASE b \in Below[child]
        BY <4>3, BelowJoins
      <4>4. CASE child \in Below[b] /\ child # b
        <5>1. PICK parent \in Below[b] : child \in Children(parent)
          BY <4>4, BelowHasParent
        <5>2. parent \in Nodes
          BY <5>1, BelowSplits
        <5>3. parent = a
          BY <5>1, <5>2, Tree
        <5>4. QED
          BY <5>1, <5>3
      <4>5. CASE child = b
        BY <4>1, <4>5, BelowJoins
      <4>6. QED
        BY <4>2, <4>3, <4>4, <4>5
    <3>3. QED
      BY <3>1, <3>2
  <2>2. QED
    BY <2>1
<1>2. T = Nodes
  <2>1. T \in SUBSET Nodes
    OBVIOUS
  <2> HIDE DEF T
  <2>2. QED
    BY <1>1, <2>1, NodeInduction
<1>3. QED
  BY <1>2

LEMMA SiblingsAreApart ==
  ASSUME PayloadAssumption, NEW node \in Nodes,
         NEW a \in Children(node), NEW b \in Children(node), a # b
  PROVE  Below[a] \cap Below[b] = {}
<1>1. ASSUME NEW c \in Children(node), NEW d \in Children(node), c # d PROVE c \notin Below[d]
  <2> SUFFICES ASSUME c \in Below[d] PROVE FALSE
    OBVIOUS
  <2>1. d \in Nodes /\ Height[d] < Height[node] /\ Height[d] \in Nat /\ Height[node] \in Nat
    BY Tree
  <2>2. PICK parent \in Below[d] : c \in Children(parent)
    BY <1>1, <2>1, BelowHasParent
  <2>3. parent \in Nodes
    BY <2>1, <2>2, BelowSplits
  <2>4. parent = node
    BY <2>2, <2>3, Tree
  <2>5. Height[node] <= Height[d]
    BY <2>1, <2>2, <2>4, BelowIsLower
  <2>6. QED
    BY <2>1, <2>5
<1>2. a \in Nodes /\ b \in Nodes
  BY Tree
<1>3. QED
  BY <1>1, <1>2, BelowIsNested

-----------------------------------------------------------------------------
(* What redact() shows of a node: of a field that is not withheld, of an   *)
(* item, and of a leaf.                                                    *)
Shown(node, f) ==
  {IF is_sensitive_key(key) THEN {REDACTED} ELSE f[Fields[node][key]] : key \in DOMAIN Fields[node]}
    \cup {f[item] : item \in Items[node]}

Redacted(node, f) == IF Shown(node, f) = {} THEN {node} ELSE UNION Shown(node, f)

LEMMA RedactUnfolds ==
  ASSUME PayloadAssumption
  PROVE  \A node \in Nodes : redact[node] = Redacted(node, redact)
<1> DEFINE S == SUBSET (Nodes \cup {REDACTED})
           D == [node \in Nodes |-> [g \in [Nodes -> S] |-> Redacted(node, g)]]
           Solution(f) == f = [node \in Nodes |-> Redacted(node, f)]
<1>1. ASSUME NEW node \in Nodes, NEW g \in [Nodes -> S]
      PROVE  Redacted(node, g) \in S /\ D[node][g] = Redacted(node, g)
  <2>1. \A key \in DOMAIN Fields[node] : g[Fields[node][key]] \in S
    BY Tree DEF Children
  <2>2. \A item \in Items[node] : g[item] \in S
    BY Tree DEF Children
  <2>3. Redacted(node, g) \in S
    BY <2>1, <2>2 DEF Redacted, Shown
  <2>4. QED
    BY <2>3
<1>2. Local(D, S)
  <2>1. D \in [Nodes -> [[Nodes -> S] -> S]]
    BY <1>1
  <2>2. ASSUME NEW node \in Nodes, NEW f \in [Nodes -> S], NEW g \in [Nodes -> S],
               \A child \in Children(node) : f[child] = g[child]
        PROVE  D[node][f] = D[node][g]
    <3>1. Shown(node, f) = Shown(node, g)
      BY <2>2 DEF Shown, Children
    <3>2. QED
      BY <1>1, <3>1 DEF Redacted
  <2> HIDE DEF D, S
  <2>3. QED
    BY <2>1, <2>2 DEF Local
<1>3. PICK f \in [Nodes -> S] : f = [node \in Nodes |-> D[node][f]]
  <2>1. S # {}
    OBVIOUS
  <2> HIDE DEF D, S
  <2>2. QED
    BY <1>2, <2>1, RecursionHasSolution
<1>4. Solution(f)
  BY <1>1, <1>3
<1>5. redact = CHOOSE g : Solution(g)
  BY DEF redact, Redacted, Shown
<1>6. Solution(redact)
  <2> HIDE DEF Solution
  <2>1. QED
    BY <1>4, <1>5
<1>7. QED
  BY <1>6

(* Where a shown leaf comes from.                                          *)
LEMMA ShownComesFrom ==
  ASSUME PayloadAssumption, NEW node \in Nodes, NEW x \in redact[node], x # REDACTED
  PROVE  \/ x = node /\ Children(node) = {}
         \/ \E key \in DOMAIN Fields[node] :
              ~is_sensitive_key(key) /\ x \in redact[Fields[node][key]]
         \/ \E item \in Items[node] : x \in redact[item]
<1>1. x \in Redacted(node, redact)
  BY RedactUnfolds
<1>2. CASE Shown(node, redact) = {}
  <2>1. DOMAIN Fields[node] = {} /\ Items[node] = {}
    <3>1. \A key \in DOMAIN Fields[node] :
            (IF is_sensitive_key(key) THEN {REDACTED} ELSE redact[Fields[node][key]])
              \in Shown(node, redact)
      BY DEF Shown
    <3>2. \A item \in Items[node] : redact[item] \in Shown(node, redact)
      BY DEF Shown
    <3>3. QED
      BY <1>2, <3>1, <3>2
  <2>2. Children(node) = {}
    BY <2>1 DEF Children
  <2>3. QED
    BY <1>1, <1>2, <2>2 DEF Redacted
<1>3. CASE Shown(node, redact) # {}
  <2>1. PICK part \in Shown(node, redact) : x \in part
    BY <1>1, <1>3 DEF Redacted
  <2>2. QED
    BY <2>1 DEF Shown
<1>4. QED
  BY <1>2, <1>3

(* redact() invents nothing.                                               *)
LEMMA ShownIsBelow ==
  ASSUME PayloadAssumption
  PROVE  \A node \in Nodes : redact[node] \subseteq Below[node] \cup {REDACTED}
<1> DEFINE T == {node \in Nodes : redact[node] \subseteq Below[node] \cup {REDACTED}}
<1>1. ASSUME NEW node \in Nodes, Children(node) \subseteq T PROVE node \in T
  <2>1. ASSUME NEW x \in redact[node], x # REDACTED PROVE x \in Below[node]
    <3>1. CASE x = node
      BY <3>1, BelowJoins
    <3>2. ASSUME NEW child \in Children(node), x \in redact[child] PROVE x \in Below[node]
      BY <1>1, <2>1, <3>2, BelowJoins
    <3>3. QED
      BY <2>1, <3>1, <3>2, ShownComesFrom DEF Children
  <2>2. QED
    BY <2>1
<1>2. T = Nodes
  <2>1. T \in SUBSET Nodes
    OBVIOUS
  <2> HIDE DEF T
  <2>2. QED
    BY <1>1, <2>1, NodeInduction
<1>3. QED
  BY <1>2

(* What is below a key of Private somewhere below node.                    *)
PrivateBelow(node) ==
  UNION {UNION {Below[Fields[place][key]] : key \in DOMAIN Fields[place] \cap Private} :
           place \in Below[node]}

PrivateIsSensitive == \A key \in Private : is_sensitive_key(key)

(* redact() keeps everything below a private key to itself.                *)
THEOREM RedactWithholds ==
  ASSUME PayloadAssumption, PrivateIsSensitive
  PROVE  \A node \in Nodes : redact[node] \cap PrivateBelow(node) = {}
<1> DEFINE T == {node \in Nodes : redact[node] \cap PrivateBelow(node) = {}}
<1>1. ASSUME NEW node \in Nodes, Children(node) \subseteq T PROVE node \in T
  <2> SUFFICES ASSUME NEW x \in redact[node], NEW place \in Below[node],
                      NEW key \in DOMAIN Fields[place] \cap Private,
                      x \in Below[Fields[place][key]]
               PROVE  FALSE
    BY DEF PrivateBelow
  <2>1. /\ place \in Nodes /\ Fields[place][key] \in Children(place)
        /\ Fields[place][key] \in Nodes /\ Height[Fields[place][key]] < Height[place]
    <3>1. place \in Nodes
      BY BelowSplits
    <3>2. Fields[place][key] \in Children(place)
      BY DEF Children
    <3>3. QED
      BY <3>1, <3>2, Tree
  <2>2. x \in Nodes /\ x # REDACTED
    BY <2>1, BelowSplits DEF PayloadAssumption
  <2>3. ASSUME x = node, Children(node) = {} PROVE FALSE
    <3>1. place = node
      BY <2>3, BelowSplits
    <3>2. QED
      BY <2>1, <2>3, <3>1
  <2>4. ASSUME NEW child \in Children(node), x \in redact[child],
               \A k \in DOMAIN Fields[node] :
                 Fields[node][k] = child => ~is_sensitive_key(k)
        PROVE  FALSE
    <3>1. child \in Nodes /\ x \in Below[child]
      BY <2>2, <2>4, ShownIsBelow, Tree
    <3>2. CASE place = node
      <4>1. Fields[node][key] # child
        BY <2>4, <3>2 DEF PrivateIsSensitive
      <4>2. QED
        BY <2>1, <3>1, <3>2, <4>1, SiblingsAreApart
    <3>3. ASSUME NEW other \in Children(node), other \in Nodes, place \in Below[other]
          PROVE  FALSE
      <4>1. CASE other = child
        BY <1>1, <2>4, <3>3, <4>1 DEF PrivateBelow
      <4>2. CASE other # child
        <5>1. x \in Below[place]
          BY <2>1, BelowJoins
        <5>2. Below[place] \subseteq Below[other]
          BY <2>1, <3>3, BelowIsTransitive
        <5>3. QED
          BY <3>1, <4>2, <5>1, <5>2, SiblingsAreApart
      <4>3. QED
        BY <4>1, <4>2
    <3>4. QED
      BY <3>2, <3>3, BelowSplits
  <2>5. ASSUME NEW k \in DOMAIN Fields[node], ~is_sensitive_key(k), x \in redact[Fields[node][k]]
        PROVE  FALSE
    <3>1. \A l \in DOMAIN Fields[node] : Fields[node][l] = Fields[node][k] => ~is_sensitive_key(l)
      BY <2>5 DEF PayloadAssumption
    <3>2. QED
      BY <2>4, <2>5, <3>1 DEF Children
  <2>6. ASSUME NEW item \in Items[node], x \in redact[item] PROVE FALSE
    <3>1. DOMAIN Fields[node] = {}
      BY <2>6 DEF PayloadAssumption
    <3>2. QED
      BY <2>4, <2>6, <3>1 DEF Children
  <2>7. QED
    BY <2>2, <2>3, <2>5, <2>6, ShownComesFrom
<1>2. T = Nodes
  <2>1. T \in SUBSET Nodes
    OBVIOUS
  <2> HIDE DEF T
  <2>2. QED
    BY <1>1, <2>1, NodeInduction
<1>3. QED
  BY <1>2

SensitiveBelow(node) ==
  UNION {UNION {Below[Fields[place][key]] :
                  key \in {k \in DOMAIN Fields[place] : is_sensitive_key(k)}} :
           place \in Below[node]}

(* redact() loses nothing but what is below a sensitive key.               *)
THEOREM RedactShowsTheRest ==
  ASSUME PayloadAssumption
  PROVE  \A node \in Nodes : \A leaf \in Below[node] :
           Children(leaf) = {} /\ leaf \notin SensitiveBelow(node) => leaf \in redact[node]
<1> DEFINE T == {node \in Nodes : \A leaf \in Below[node] :
                   Children(leaf) = {} /\ leaf \notin SensitiveBelow(node) => leaf \in redact[node]}
<1>1. ASSUME NEW node \in Nodes, Children(node) \subseteq T PROVE node \in T
  <2> SUFFICES ASSUME NEW leaf \in Below[node], Children(leaf) = {},
                      leaf \notin SensitiveBelow(node)
               PROVE  leaf \in redact[node]
    OBVIOUS
  <2>1. CASE leaf = node
    <3>1. Shown(node, redact) = {}
      BY <2>1 DEF Children, Shown
    <3>2. Redacted(node, redact) = {node}
      BY <3>1 DEF Redacted
    <3>3. redact[node] = Redacted(node, redact)
      BY RedactUnfolds
    <3>4. QED
      BY <2>1, <3>2, <3>3
  <2>2. ASSUME NEW child \in Children(node), child \in Nodes, leaf \in Below[child]
        PROVE  leaf \in redact[node]
    <3>1. \A place \in Below[child] : place \in Below[node]
      BY BelowJoins
    <3>2. SensitiveBelow(child) \subseteq SensitiveBelow(node)
      BY <3>1 DEF SensitiveBelow
    <3>3. leaf \in redact[child]
      BY <1>1, <2>2, <3>2
    <3>4. \A key \in DOMAIN Fields[node] : is_sensitive_key(key) => Fields[node][key] # child
      <4>1. node \in Below[node]
        BY BelowJoins
      <4>2. QED
        BY <2>2, <4>1 DEF SensitiveBelow
    <3>5. redact[child] \in Shown(node, redact)
      BY <3>4 DEF Shown, Children
    <3>6. redact[node] = Redacted(node, redact)
      BY RedactUnfolds
    <3>7. Redacted(node, redact) = UNION Shown(node, redact)
      BY <3>5 DEF Redacted
    <3>8. QED
      BY <3>3, <3>5, <3>6, <3>7
  <2>3. QED
    BY <2>1, <2>2, BelowSplits
<1>2. T = Nodes
  <2>1. T \in SUBSET Nodes
    OBVIOUS
  <2> HIDE DEF T
  <2>2. QED
    BY <1>1, <2>1, NodeInduction
<1>3. QED
  BY <1>2

-----------------------------------------------------------------------------
(* The line of a request is the redacted body, or gone.                    *)
LinesAreRedacted ==
  /\ DOMAIN line = Handlers
  /\ \A h \in Handlers : job[h] # NoJob =>
       job[h].news \in Happenings /\ line[h] \subseteq LogLine[job[h].news]

LEMMA LinesInit ==
  ASSUME Init PROVE LinesAreRedacted
BY DEF Init, LinesAreRedacted

LEMMA LinesNext ==
  ASSUME FilingIsSound, LinesAreRedacted, [Next]_deliveryVars
  PROVE  LinesAreRedacted'
<1>1. DOMAIN job = Handlers /\ DOMAIN line = Handlers
  BY DEF FilingIsSound, LinesAreRedacted
<1>2. CASE UNCHANGED <<job, line>>
  BY <1>2 DEF LinesAreRedacted
<1>3. ASSUME NEW h \in Handlers, RequestDone(h) PROVE LinesAreRedacted'
  BY <1>1, <1>3 DEF RequestDone, LinesAreRedacted
<1>4. ASSUME NEW h \in Handlers, UNCHANGED job, line' = [line EXCEPT ![h] = {}]
      PROVE  LinesAreRedacted'
  BY <1>1, <1>4 DEF LinesAreRedacted
<1>5. ASSUME NEW h \in Handlers, Deliver(h) PROVE LinesAreRedacted'
  <2>1. PICK who, url, r : r.body \in News(who, url) /\ parse_webhook(h, r)
    BY <1>5 DEF Deliver
  <2>2. r.body \in Happenings
    BY <2>1 DEF parse_webhook, News, ItsNews
  <2>3. /\ \E name : job' = [job EXCEPT ![h] = [gateway |-> name, news |-> r.body]]
        /\ line' = [line EXCEPT ![h] = LogLine[r.body]]
    BY <2>1 DEF parse_webhook
  <2>4. QED
    BY <1>1, <2>2, <2>3 DEF LinesAreRedacted
<1>6. ASSUME NEW h \in Handlers, NEW row \in rows, Found(h, row)
      PROVE  RequestDone(h) \/ (UNCHANGED job /\ line' = [line EXCEPT ![h] = {}])
  BY <1>6 DEF Found
<1>7. ASSUME NEW h \in Handlers, RequestStep(h) \/ Crash(h) PROVE LinesAreRedacted'
  BY <1>2, <1>3, <1>4, <1>6, <1>7 DEF RequestStep, RefuseUnidentified, Lookup, Create, Acknowledge,
                                      Crash
<1>8. QED
  BY <1>2, <1>5, <1>7 DEF Next, Process, Reconfigure, deliveryVars

(* If every key of Private is one that is_sensitive_key knows, no line of  *)
(* the log shows anything below one, however deep (logging.redact).        *)
THEOREM LogStaysSilent ==
  PrivateIsSensitive => (Spec => []LogWithholds)
<1> USE DeliveryAssumption, PayloadAssumption
<1> SUFFICES ASSUME PrivateIsSensitive PROVE Spec => []LogWithholds
  OBVIOUS
<1>1. Init => LinesAreRedacted
  BY LinesInit
<1>2. FilingIsSound /\ LinesAreRedacted /\ [Next]_deliveryVars => LinesAreRedacted'
  BY LinesNext
<1>3. LinesAreRedacted => LogWithholds
  <2> SUFFICES ASSUME LinesAreRedacted, NEW h \in Handlers, job[h] # NoJob
               PROVE  line[h] \cap PrivateIn[job[h].news] = {}
    BY DEF LogWithholds
  <2>1. PICK n \in Happenings : n = job[h].news /\ line[h] \subseteq redact[Content[n].root]
    BY DEF LinesAreRedacted, LogLine
  <2>2. PrivateIn[n] = PrivateBelow(Content[n].root)
    BY DEF PrivateIn, PrivateBelow
  <2>3. Content[n].root \in Nodes
    BY DEF PayloadAssumption
  <2>4. PICK root \in Nodes : root = Content[n].root
    BY <2>3
  <2>5. redact[root] \cap PrivateBelow(root) = {}
    BY <2>4, RedactWithholds
  <2>6. PrivateIn[n] = PrivateBelow(root) /\ line[h] \subseteq redact[root]
    BY <2>1, <2>2, <2>4
  <2>7. ASSUME NEW x \in line[h] \cap PrivateIn[n] PROVE FALSE
    <3>1. x \in redact[root] /\ x \in PrivateBelow(root)
      BY <2>6
    <3>2. QED
      BY <2>5, <3>1
  <2>8. QED
    BY <2>1, <2>7
<1>4. QED
  BY <1>1, <1>2, <1>3, FilingStaysSound, PTL DEF Spec
=============================================================================
