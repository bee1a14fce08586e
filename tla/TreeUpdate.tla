----------------------------- MODULE TreeUpdate -----------------------------
(***************************************************************************)
(* The model of the source statistics that encoder and decoder both keep:  *)
(* updateTree of src/adaptive_common.h, called once for every symbol that  *)
(* is coded.  A call runs to its end before the next one, but it is long:  *)
(* for every node from the symbol's leaf up to the root, findNodeForSwap   *)
(* walks the whole tree, and the tree is rearranged before the walk goes   *)
(* on one level up.  Each visit of the walk and each rearrangement is a    *)
(* step here, so that the properties can speak of the states in between.   *)
(***************************************************************************)
EXTENDS TreeInvariants

CONSTANT
  MaxWeight   \* bound of the model: symbols observed in one behaviour

ASSUME MaxWeightAssumption == MaxWeight \in Nat

VARIABLES
  tree,       \* the coder's TreeType
  nyt,        \* nytNode
  cache,      \* symbolNodes (nodeCacheArray): the leaf of a symbol, or Null
  node,       \* the node slideAndIncrement was called with; Null between calls
  candidate,  \* inspectedNode, the search's best node so far
  toVisit     \* the nodes findNodeForSwap has yet to enter, in preorder

vars == <<tree, nyt, cache, node, candidate, toVisit>>

Idle == node = Null

Init ==
  /\ tree = NewTree
  /\ nyt = Root
  /\ cache = [s \in Symbol |-> Null]
  /\ node = Null
  /\ candidate = Null
  /\ toVisit = <<>>

-----------------------------------------------------------------------------
\* slideAndIncrement(tree, n): search from the root, with n as first candidate.
StartSlide(n) ==
  /\ node' = n
  /\ candidate' = n
  /\ toVisit' = <<Root>>

\* updateTree for a symbol that has a leaf.
UpdateKnown(s) ==
  /\ Idle
  /\ tree.weight[Root] < MaxWeight
  /\ cache[s] # Null
  /\ StartSlide(cache[s])
  /\ UNCHANGED <<tree, nyt, cache>>

\* Mutant: symbolNodes gets the left child.
UpdateNew_CachesNYT(s) ==
  /\ Idle
  /\ tree.weight[Root] < MaxWeight
  /\ cache[s] = Null
  /\ tree' = SplitNYT(tree, nyt, s)
  /\ nyt' = NewNYT(tree)
  /\ cache' = [cache EXCEPT ![s] = NewNYT(tree)]
  /\ StartSlide(NewLeaf(tree))

\* updateTree for a symbol seen for the first time.
UpdateNew(s) ==
  /\ Idle
  /\ tree.weight[Root] < MaxWeight
  /\ cache[s] = Null
  /\ tree' = SplitNYT(tree, nyt, s)
  /\ nyt' = NewNYT(tree)
  /\ cache' = [cache EXCEPT ![s] = NewLeaf(tree)]
  /\ StartSlide(NewLeaf(tree))

\* Mutant: the walk does not go right.
Visit_LeftOnly ==
  /\ ~Idle
  /\ toVisit # <<>>
  /\ LET n == Head(toVisit)
     IN IF candidate = Root
        THEN toVisit' = Tail(toVisit) /\ UNCHANGED candidate
        ELSE /\ toVisit' = Present(tree.left[n]) \o Tail(toVisit)
             /\ candidate' = IF BetterToSwap(tree, candidate, n)
                             THEN n ELSE candidate
  /\ UNCHANGED <<tree, nyt, cache, node>>

\* Mutant: with the root for a candidate the call does not return.
Visit_StaysAtRoot ==
  /\ ~Idle
  /\ toVisit # <<>>
  /\ candidate # Root
  /\ LET n == Head(toVisit)
     IN /\ toVisit' = Children(tree, n) \o Tail(toVisit)
        /\ candidate' = IF BetterToSwap(tree, candidate, n) THEN n ELSE candidate
  /\ UNCHANGED <<tree, nyt, cache, node>>

\* One call of findNodeForSwap, down to the recursive calls it makes.  With
\* the root for a candidate the call returns before it makes any.
Visit ==
  /\ ~Idle
  /\ toVisit # <<>>
  /\ LET n == Head(toVisit)
     IN IF candidate = Root
        THEN toVisit' = Tail(toVisit) /\ UNCHANGED candidate
        ELSE /\ toVisit' = Children(tree, n) \o Tail(toVisit)
             /\ candidate' = IF BetterToSwap(tree, candidate, n)
                             THEN n ELSE candidate
  /\ UNCHANGED <<tree, nyt, cache, node>>

\* The search is over: rearrange, increment, and go on with the parent.
Slide ==
  /\ ~Idle
  /\ toVisit = <<>>
  /\ tree' = SlideNode(tree, node, candidate)
  /\ LET up == tree'.parent[node]
     IN IF up = Null
        THEN node' = Null /\ candidate' = Null /\ toVisit' = <<>>
        ELSE StartSlide(up)
  /\ UNCHANGED <<nyt, cache>>

Update == \E s \in Symbol : UpdateKnown(s) \/ UpdateNew(s)

Next == Update \/ Visit \/ Slide

\* The caller may stop after any symbol; a call that has begun runs on.
Spec == Init /\ [][Next]_vars /\ WF_vars(Visit) /\ WF_vars(Slide)

-----------------------------------------------------------------------------
(***************************************************************************)
(* Invariants.                                                             *)
(***************************************************************************)
\* The types of the variables; that orders are natural numbers says that
\* `currentOrder - 2` of updateTree never wraps around its std::size_t.
TypeOK ==
  /\ tree \in Tree
  /\ nyt \in Node
  /\ cache \in [Symbol -> Node \cup {Null}]
  /\ node \in Node \cup {Null}
  /\ candidate \in Node \cup {Null}
  /\ toVisit \in Seq(Node)

\* The unique_ptr children and the observer_ptr parents stay inverse to each
\* other through every swapNodes, and a node has two children or none.
LinksAgree == Linked(tree)

\* An internal node weighs as much as its two children; the node that is
\* about to slide lags one behind, since its child has just been incremented.
WeightsAddUp == AddsUp(tree, node)

\* The orders rank the nodes without ties or gaps: the exchange of orders that
\* follows a swap, and the two orders below NYT's for a split, keep it so.
OrdersFormRanking == Ranking(tree)

\* A node ranks below its parent.  With LinksAgree this makes the links a tree:
\* no swap ever moves a node below itself.
ParentRanksHigher == ParentsAbove(tree)

\* Half of the sibling property of FGK: ranks follow weights.  The only
\* exception is the NYT node's parent while it waits for its own increment.
HeavierRanksHigher == HeavierAbove(tree, node)

\* The other half: the two children of a node have neighbouring ranks.
SiblingsAdjacent == Adjacent(tree)

\* There is one NYT node, the one the coder holds a pointer to; it is a leaf of
\* weight 0 and ranks last, directly behind its sibling and its parent.
NYTLast == RanksLast(tree, nyt) /\ Marked(tree, nyt)

\* Swaps move leaves but never make symbolNodes stale: the cached node of a
\* symbol is the leaf with that value, and every leaf but NYT is cached.
CacheIsCurrent == Current(tree, nyt, cache)

SearchDone == ~Idle /\ toVisit = <<>>

\* findNodeForSwap never returns a node that swapNodes refuses to swap; if it
\* did, slideAndIncrement would exchange the orders of nodes that stay in place.
SwapIsReal ==
  SearchDone /\ candidate # node => CanSwap(tree, candidate, node)

\* The one-pass search, whose parent test depends on the candidate of the
\* moment, still finds the block leader: no node of the same weight ranks
\* above the one it returns, except the parent of the node that slides.
LeaderFound ==
  SearchDone => \A n \in Allocated(tree) : Settled(tree, node, candidate, n)

(***************************************************************************)
(* What "Vitter algorithm implementation" (src/adaptive_encoding.h:54)     *)
(* promises: in Vitter's algorithm V the leaves of a weight rank before    *)
(* the internal nodes of that weight.                                      *)
(***************************************************************************)
VitterInvariant ==
  Idle =>
    \A m, n \in Allocated(tree) :
      /\ IsLeaf(tree, m)
      /\ ~IsLeaf(tree, n)
      /\ tree.weight[m] = tree.weight[n]
      => tree.order[m] < tree.order[n]

-----------------------------------------------------------------------------
(***************************************************************************)
(* Properties of behaviours.                                               *)
(***************************************************************************)
\* The call of updateTree returns: the recursion of slideAndIncrement reaches
\* the root, and the walk of findNodeForSwap ends, whatever has been swapped.
Terminates == ~Idle ~> Idle

(***************************************************************************)
(* The tree is a frequency table (see FrequencyTable).  The total is owed  *)
(* from the step that increments the leaf to the one that increments the   *)
(* root.                                                                   *)
(***************************************************************************)
Frequency(s) == IF cache[s] = Null THEN 0 ELSE tree.weight[cache[s]]

Table == INSTANCE FrequencyTable
           WITH freq <- [s \in Symbol |-> Frequency(s)],
                total <- tree.weight[Root],
                owed <- ~Idle /\ ~IsLeaf(tree, node)

\* Every behaviour of the tree is one of the table.
ImplementsTable == Table!Spec
=============================================================================
