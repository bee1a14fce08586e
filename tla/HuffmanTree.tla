---------------------------- MODULE HuffmanTree ----------------------------
(***************************************************************************)
(* The weighted binary tree of the adaptive coder (src/Tree.h,             *)
(* src/EncodingTreeData.h) and the operations src/adaptive_common.h        *)
(* performs on it.  A tree is a record of functions over the pool of node  *)
(* identities; a std::unique_ptr child or an observer_ptr parent is the    *)
(* identity of the node it points to, or Null.  Nothing here has state:    *)
(* TreeUpdate and AdaptiveCodec hold trees in their variables.             *)
(***************************************************************************)
EXTENDS Naturals, FiniteSets, Sequences

CONSTANTS
  Symbol,     \* the values of T: 256 of them for uint8_t
  Zero,       \* T{}, the value stored in a node that carries no symbol
  RootOrder   \* the default order of makeNYTAdaptive: 512

ASSUME SymbolAssumption == IsFiniteSet(Symbol) /\ Zero \in Symbol

\* 512 = 2 * 256: every value can be split off the NYT node exactly once.
ASSUME OrderAssumption ==
  RootOrder \in Nat /\ RootOrder >= 2 * Cardinality(Symbol)

-----------------------------------------------------------------------------
(***************************************************************************)
(* Nodes.  They are numbered in the order of their allocation; the root is *)
(* the first, and every symbol allocates two more.                         *)
(***************************************************************************)
MaxNodes == 2 * Cardinality(Symbol) + 1
Node == 1..MaxNodes
Null == 0
Root == 1

Tree == [used : Node,
         left : [Node -> Node \cup {Null}],
         right : [Node -> Node \cup {Null}],
         parent : [Node -> Node \cup {Null}],
         weight : [Node -> Nat],
         order : [Node -> Nat],
         isNYT : [Node -> BOOLEAN],
         value : [Node -> Symbol]]

Allocated(t) == 1..t.used
IsLeaf(t, n) == t.left[n] = Null /\ t.right[n] = Null


\* The children of n that exist, the left one first.
Present(c) == IF c = Null THEN <<>> ELSE <<c>>
Children(t, n) == Present(t.left[n]) \o Present(t.right[n])

-----------------------------------------------------------------------------
(***************************************************************************)
(* A tree of one node, the NYT ("not yet transmitted") node.               *)
(***************************************************************************)
NewTree ==
  [used   |-> 1,
   left   |-> [n \in Node |-> Null],
   right  |-> [n \in Node |-> Null],
   parent |-> [n \in Node |-> Null],
   weight |-> [n \in Node |-> 0],
   order  |-> [n \in Node |-> IF n = Root THEN RootOrder ELSE 0],
   isNYT  |-> [n \in Node |-> n = Root],
   value  |-> [n \in Node |-> Zero]]

(***************************************************************************)
(* The NYT node becomes an internal node; its left child is the new NYT    *)
(* node, its right child the leaf of symbol s, still of weight 0.          *)
(***************************************************************************)
NewNYT(t) == t.used + 1
NewLeaf(t) == t.used + 2

\* Mutant: three orders are taken for two nodes.
SplitNYT_SkipsOrder(t, nyt, s) ==
  [t EXCEPT !.used = t.used + 2,
            !.left = [t.left EXCEPT ![nyt] = NewNYT(t)],
            !.right = [t.right EXCEPT ![nyt] = NewLeaf(t)],
            !.parent = [t.parent EXCEPT ![NewNYT(t)] = nyt, ![NewLeaf(t)] = nyt],
            !.order = [t.order EXCEPT ![NewNYT(t)] = t.order[nyt] - 3,
                                      ![NewLeaf(t)] = t.order[nyt] - 1],
            !.isNYT = [t.isNYT EXCEPT ![nyt] = FALSE, ![NewNYT(t)] = TRUE],
            !.value = [t.value EXCEPT ![NewLeaf(t)] = s]]

SplitNYT(t, nyt, s) ==
  [t EXCEPT !.used = t.used + 2,
            !.left = [t.left EXCEPT ![nyt] = NewNYT(t)],
            !.right = [t.right EXCEPT ![nyt] = NewLeaf(t)],
            !.parent = [t.parent EXCEPT ![NewNYT(t)] = nyt, ![NewLeaf(t)] = nyt],
            !.order = [t.order EXCEPT ![NewNYT(t)] = t.order[nyt] - 2,
                                      ![NewLeaf(t)] = t.order[nyt] - 1],
            !.isNYT = [t.isNYT EXCEPT ![nyt] = FALSE, ![NewNYT(t)] = TRUE],
            !.value = [t.value EXCEPT ![NewLeaf(t)] = s]]

(***************************************************************************)
(* swapNodes: the subtrees of a and b change places.  It refuses (and      *)
(* changes nothing) when one is the root or the parent of the other.       *)
(***************************************************************************)
CanSwap(t, a, b) ==
  /\ t.parent[a] # Null /\ t.parent[b] # Null
  /\ t.parent[a] # b /\ t.parent[b] # a

Exchange(x, a, b) == IF x = a THEN b ELSE IF x = b THEN a ELSE x

\* Mutant: the subtrees move, their parent pointers do not.
SwapNodes_KeepsParents(t, a, b) ==
  IF CanSwap(t, a, b)
  THEN [t EXCEPT !.left = [n \in Node |-> Exchange(t.left[n], a, b)],
                 !.right = [n \in Node |-> Exchange(t.right[n], a, b)]]
  ELSE t

SwapNodes(t, a, b) ==
  IF CanSwap(t, a, b)
  THEN [t EXCEPT !.left = [n \in Node |-> Exchange(t.left[n], a, b)],
                 !.right = [n \in Node |-> Exchange(t.right[n], a, b)],
                 !.parent = [t.parent EXCEPT ![a] = t.parent[b],
                                             ![b] = t.parent[a]]]
  ELSE t

(***************************************************************************)
(* One visit of findNodeForSwap: node n replaces the candidate when it has *)
(* the same weight, a higher order, and is not the candidate's parent.     *)
(* Once the candidate is the root every later visit returns it unchanged.  *)
(***************************************************************************)
\* Mutant: weights are not compared.
BetterToSwap_AnyWeight(t, candidate, n) ==
  /\ candidate # Root
  /\ n # t.parent[candidate]
  /\ t.order[candidate] < t.order[n]

\* Mutant: the parent of the candidate is no exception.
BetterToSwap_Parent(t, candidate, n) ==
  /\ candidate # Root
  /\ t.weight[candidate] = t.weight[n]
  /\ t.order[candidate] < t.order[n]

BetterToSwap(t, candidate, n) ==
  /\ candidate # Root
  /\ t.weight[candidate] = t.weight[n]
  /\ n # t.parent[candidate]
  /\ t.order[candidate] < t.order[n]

(***************************************************************************)
(* What slideAndIncrement does to node n once the search has returned      *)
(* target: the two exchange their places and their orders, so that the     *)
(* orders stay where they were, and n gains one.                           *)
(***************************************************************************)
\* Mutant: nothing is exchanged.
SlideNode_StaysPut(t, n, target) ==
  [t EXCEPT !.weight = [t.weight EXCEPT ![n] = @ + 1]]

\* Mutant: the nodes change places and take their orders along.
SlideNode_KeepsOrders(t, n, target) ==
  LET moved == IF target = n THEN t ELSE SwapNodes(t, target, n)
  IN [moved EXCEPT !.weight = [t.weight EXCEPT ![n] = @ + 1]]

\* Mutant: one order is copied over the other.
SlideNode_CopiesOrder(t, n, target) ==
  LET moved == IF target = n THEN t ELSE SwapNodes(t, target, n)
  IN [moved EXCEPT !.order = [t.order EXCEPT ![n] = t.order[target]],
                   !.weight = [t.weight EXCEPT ![n] = @ + 1]]

SlideNode(t, n, target) ==
  LET moved == IF target = n THEN t ELSE SwapNodes(t, target, n)
  IN [moved EXCEPT !.order = [t.order EXCEPT ![target] = t.order[n],
                                             ![n] = t.order[target]],
                   !.weight = [t.weight EXCEPT ![n] = @ + 1]]
=============================================================================
