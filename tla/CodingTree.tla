----------------------------- MODULE CodingTree -----------------------------
(***************************************************************************)
(* The calls of src/adaptive_common.h and src/adaptive_encoding.h as       *)
(* functions of the tree: what TreeUpdate does in steps, done at once, for *)
(* the modules in which encoder and decoder each hold a tree of their own. *)
(* The recursive calls of the code are recursive functions here.           *)
(* TreeCalls says that the two agree.                                      *)
(***************************************************************************)
EXTENDS HuffmanTree

\* findNodeForSwap: the candidate returned by the call for node v[1], or for a
\* child that does not exist, when the candidate found so far is v[2].
Search(t) ==
  LET Found[v \in (Node \cup {Null}) \X Node] ==
        IF v[1] = Null \/ v[2] = Root THEN v[2]
        ELSE Found[<<t.right[v[1]],
                     Found[<<t.left[v[1]],
                             IF BetterToSwap(t, v[2], v[1]) THEN v[1] ELSE v[2]>>]>>]
  IN Found

FindNodeForSwap(t, n) == Search(t)[<<Root, n>>]

(***************************************************************************)
(* slideAndIncrement, called for node n, calls itself for the parent until *)
(* it has handled the root: turn i is the tree that the first i calls have *)
(* made and the node of the next one.  There are never more calls than     *)
(* nodes.                                                                  *)
(***************************************************************************)
Turns(t, n) ==
  LET Turn[i \in 0..MaxNodes] ==
        IF i = 0 THEN [tree |-> t, node |-> n]
        ELSE LET last == Turn[i - 1]
                 slid == SlideNode(last.tree, last.node,
                                   FindNodeForSwap(last.tree, last.node))
             IN IF last.node = Null THEN last
                ELSE [tree |-> slid, node |-> slid.parent[last.node]]
  IN Turn

SlideAndIncrement(t, n) == Turns(t, n)[MaxNodes].tree

(***************************************************************************)
(* A coder: its tree, its NYT node and its node of every symbol.           *)
(***************************************************************************)
NewCoder == [tree |-> NewTree, nyt |-> Root, cache |-> [s \in Symbol |-> Null]]

UpdateTree(c, s) ==
  IF c.cache[s] # Null
  THEN [c EXCEPT !.tree = SlideAndIncrement(@, c.cache[s])]
  ELSE [tree |-> SlideAndIncrement(SplitNYT(c.tree, c.nyt, s), NewLeaf(c.tree)),
        nyt |-> NewNYT(c.tree),
        cache |-> [c.cache EXCEPT ![s] = NewLeaf(c.tree)]]

(***************************************************************************)
(* getPathToSymbol: the turns (0 is left) on the way from a node down to   *)
(* target as a set of one path, or none if target is not below the node.   *)
(***************************************************************************)
PathsTo(t, target) ==
  LET Paths[n \in Node \cup {Null}] ==
        IF n = Null THEN {}
        ELSE IF n = target THEN {<<>>}
        ELSE {<<0>> \o p : p \in Paths[t.left[n]]}
               \cup {<<1>> \o p : p \in Paths[t.right[n]]}
  IN Paths

PathTo(t, target) == CHOOSE p \in PathsTo(t, target)[Root] : TRUE
=============================================================================
