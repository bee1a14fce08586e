---------------------------- MODULE MCTreeUpdate ----------------------------
(***************************************************************************)
(* TreeCalls for TLC, with a reference definition of the best tree.        *)
(***************************************************************************)
EXTENDS TreeCalls, TLC, PrefixCodes

\* Zero is the only symbol the specification names.
Interchangeable == Permutations(Symbol \ {Zero})

Leaves == {n \in Allocated(tree) : IsLeaf(tree, n)}

\* Between two symbols the tree is a Huffman tree of what has been counted: what
\* has been counted so far would take no prefix code fewer bits than the paths
\* of the tree do, which is the weight of all internal nodes together.
CodeIsOptimal ==
  Idle => SumFunction([n \in Allocated(tree) \ Leaves |-> tree.weight[n]])
            = LeastCost([n \in Leaves |-> tree.weight[n]])
=============================================================================
