--------------------------- MODULE TreeInvariants ---------------------------
(***************************************************************************)
(* What is true of a coder's tree t, its NYT node y and its node of every  *)
(* symbol, the function k.  While slideAndIncrement is on its way up from  *)
(* a leaf, n is the node whose turn is next; between two calls n is Null.  *)
(***************************************************************************)
EXTENDS HuffmanTree

\* The unique_ptr children and the observer_ptr parents are inverse to each other,
\* and a node has two children or none.
Linked(t) ==
  /\ t.parent[Root] = Null
  /\ \A m \in Allocated(t) \ {Root} :
       /\ t.parent[m] \in Allocated(t)
       /\ m \in {t.left[t.parent[m]], t.right[t.parent[m]]}
  /\ \A m \in Allocated(t) :
       ~IsLeaf(t, m) =>
         /\ {t.left[m], t.right[m]} \subseteq Allocated(t)
         /\ t.left[m] # t.right[m]
         /\ t.parent[t.left[m]] = m
         /\ t.parent[t.right[m]] = m

Loopless(t) == \A m \in Allocated(t) : t.parent[m] # m

\* Nodes that are not allocated yet are as NewTree left them.
Blank(t) ==
  \A m \in Node \ Allocated(t) : IsLeaf(t, m) /\ t.parent[m] = Null /\ t.weight[m] = 0

\* An internal node weighs as much as its two children; n lags one behind, since
\* its child has just been incremented.
AddsUp(t, n) ==
  \A m \in Allocated(t) :
    ~IsLeaf(t, m) =>
      t.weight[t.left[m]] + t.weight[t.right[m]]
        = t.weight[m] + (IF m = n THEN 1 ELSE 0)

\* The orders rank the nodes without ties or gaps.
Ranking(t) ==
  /\ {t.order[m] : m \in Allocated(t)} = (RootOrder + 1 - t.used)..RootOrder
  /\ \A l, m \in Allocated(t) : t.order[l] = t.order[m] => l = m

\* A node ranks below its parent.
ParentsAbove(t) == \A m \in Allocated(t) \ {Root} : t.order[m] < t.order[t.parent[m]]

\* Ranks follow weights, but for the NYT node's parent before its own increment.
HeavierAbove(t, n) ==
  \A l, m \in Allocated(t) :
    t.weight[l] < t.weight[m] =>
      t.order[l] < t.order[m] \/ (l = n /\ t.parent[m] = l)

\* The two children of a node have neighbouring ranks.
Adjacent(t) ==
  \A m \in Allocated(t) :
    ~IsLeaf(t, m) =>
      LET l == t.order[t.left[m]]
          r == t.order[t.right[m]]
      IN l = r + 1 \/ r = l + 1

\* y is a leaf of weight 0 that ranks last.
RanksLast(t, y) ==
  /\ y \in Allocated(t)
  /\ IsLeaf(t, y)
  /\ t.weight[y] = 0
  /\ t.order[y] = RootOrder + 1 - t.used

\* It alone is marked as NYT, and it ranks directly behind its sibling and parent.
Marked(t, y) ==
  /\ t.isNYT = [m \in Node |-> m = y]
  /\ y # Root => t.order[t.parent[y]] = t.order[y] + 2

\* Once a symbol has been seen the root has children.
InnerRoot(t, y) == y # Root => ~IsLeaf(t, Root)

\* The node of a symbol is the leaf with that value; every leaf but NYT is one.
Current(t, y, k) ==
  \A m \in Allocated(t) \ {y}, s \in Symbol :
    (IsLeaf(t, m) /\ t.value[m] = s) <=> k[s] = m

SeenIn(k) == {s \in Symbol : k[s] # Null}

\* Every symbol seen has a node of its own, and brought one more for NYT.
TwoPerSymbol(t, y, k) ==
  /\ t.used = 2 * Cardinality(SeenIn(k)) + 1
  /\ \A s \in SeenIn(k) : k[s] \in Allocated(t) \ {y}

\* Only NYT weighs nothing, but for a new leaf and its parent, the old NYT node,
\* until their turn to be incremented has come.
Weightless(t, y, n) ==
  \A m \in Allocated(t) \ {y} :
    t.weight[m] = 0 => n # Null /\ m \in {n, t.parent[n]}

(***************************************************************************)
(* Built needs nothing of the search but that it keeps to a weight; Ranked *)
(* is the sibling property of FGK, for which it must find the leader.      *)
(***************************************************************************)
Built(t, y, k, n) ==
  /\ t \in Tree /\ y \in Node /\ k \in [Symbol -> Node \cup {Null}]
  /\ Linked(t) /\ Loopless(t) /\ Blank(t)
  /\ AddsUp(t, n)
  /\ Ranking(t)
  /\ RanksLast(t, y) /\ InnerRoot(t, y)
  /\ Current(t, y, k) /\ TwoPerSymbol(t, y, k)

Ranked(t, y, n) ==
  /\ ParentsAbove(t) /\ HeavierAbove(t, n) /\ Adjacent(t)
  /\ Marked(t, y) /\ Weightless(t, y, n)

\* c is n or a node of the same weight and a higher rank.
Eligible(t, y, n, c) ==
  /\ n \in Allocated(t) \ {y} /\ c \in Allocated(t)
  /\ t.weight[c] = t.weight[n]
  /\ c = n \/ t.order[n] < t.order[c]

\* m is no better than c to be exchanged with n.
Settled(t, n, c, m) ==
  t.weight[m] = t.weight[n] /\ m # t.parent[n] => t.order[m] <= t.order[c]

\* c is the leader of n's weight, n's own parent left aside.
Leads(t, n, c) ==
  /\ c # t.parent[n]
  /\ \A m \in Allocated(t) : Settled(t, n, c, m)
=============================================================================
