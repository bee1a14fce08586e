-------------------------- MODULE TreeUpdateProofs --------------------------
(***************************************************************************)
(* Proofs about TreeUpdate, for every finite alphabet and every RootOrder  *)
(* of at least twice its size.  The inductive invariant IInv says that the *)
(* tree is built soundly and that a search stays among the nodes of one    *)
(* weight, above the rank it started at.  SiblingInv adds the sibling      *)
(* property of FGK and what the search has covered.  None of the parts of  *)
(* Ranked holds without the others: a search finds the leader only in a    *)
(* ranked tree, and only the exchange with the leader keeps it ranked.     *)
(* The last parts say what TreeUpdate stands for: to its callers the tree  *)
(* is a frequency table, each step of TreeUpdate is a step of              *)
(* FrequencyTable or leaves the table as it is (the fairness of            *)
(* FrequencyTable is left to TLC), a call in steps is the function of      *)
(* CodingTree with which the codecs are modelled, and the tree is one that *)
(* Huffman's algorithm could have made of the counts.                      *)
(***************************************************************************)
EXTENDS MCTreeUpdate, CodingTreeProofs

-----------------------------------------------------------------------------
(***************************************************************************)
(* The strengthening.                                                      *)
(***************************************************************************)
\* While a call runs, the candidate is node itself or a node of the same weight
\* and a higher rank.
SearchInvariant ==
  node # Null =>
    /\ Eligible(tree, nyt, node, candidate)
    /\ toVisit \in Seq(Allocated(tree))

IInv == TypeOK /\ Built(tree, nyt, cache, node) /\ SearchInvariant

InSeq(x, s) == \E i \in 1..Len(s) : s[i] = x

\* The nodes the walk of the search has yet to enter: those of toVisit and what is
\* below them.
Pending(U) ==
  \A u \in U : InSeq(u, toVisit) \/ (u # Root /\ tree.parent[u] \in U)

\* Every node is settled or will be visited.
SearchCovers ==
  node # Null =>
    /\ candidate # tree.parent[node]
    /\ \E U \in SUBSET Allocated(tree) :
         /\ Pending(U)
         /\ \A n \in Allocated(tree) \ U : Settled(tree, node, candidate, n)

SiblingInv == IInv /\ Ranked(tree, nyt, node) /\ SearchCovers

-----------------------------------------------------------------------------
(***************************************************************************)
(* The steps preserve IInv.                                                *)
(***************************************************************************)
\* A search starts with node for its candidate and the root to be visited.
LEMMA StartKeepsSearch ==
  ASSUME tree' \in Tree, Built(tree', nyt', cache', node'),
         node' \in Allocated(tree') \ {nyt'}, candidate' = node', toVisit' = <<Root>>
  PROVE  IInv'
<1>1. /\ Allocated(tree') \subseteq Node /\ Root \in Allocated(tree')
      /\ nyt' \in Node /\ cache' \in [Symbol -> Node \cup {Null}]
  BY AllocatedFacts DEF Built
<1>2. toVisit' \in Seq(Allocated(tree')) /\ toVisit' \in Seq(Node)
  BY <1>1
<1>3. TypeOK'
  BY <1>1, <1>2 DEF TypeOK
<1>4. Eligible(tree', nyt', node', candidate')
  BY StartEligible
<1>5. SearchInvariant'
  BY <1>2, <1>4 DEF SearchInvariant
<1>6. QED
  BY <1>3, <1>5 DEF IInv

\* updateTree for a known symbol starts at a leaf, which lags behind nothing.
LEMMA UpdateKnownKeeps ==
  ASSUME IInv, NEW s \in Symbol, UpdateKnown(s)
  PROVE  IInv'
<1>1. /\ tree' = tree /\ nyt' = nyt /\ cache' = cache
      /\ node = Null /\ cache[s] # Null
      /\ node' = cache[s] /\ candidate' = cache[s] /\ toVisit' = <<Root>>
  BY DEF UpdateKnown, StartSlide, Idle
<1>2. Built(tree, nyt, cache, Null) /\ tree \in Tree
  BY <1>1 DEF IInv, TypeOK
<1>3. Built(tree, nyt, cache, cache[s]) /\ cache[s] \in Allocated(tree) \ {nyt}
  BY <1>1, <1>2, KnownLeaf
<1>4. QED
  BY <1>1, <1>2, <1>3, StartKeepsSearch

\* What the call for a new symbol does to the tree.
LEMMA UpdateNewSplits ==
  ASSUME IInv, NEW s \in Symbol, UpdateNew(s)
  PROVE  /\ Splits(tree, nyt, cache, s, tree', cache')
         /\ node = Null /\ nyt' = NewNYT(tree) /\ node' = NewLeaf(tree)
         /\ candidate' = node' /\ toVisit' = <<Root>>
  BY DEF IInv, UpdateNew, StartSlide, Idle, Splits

\* A symbol seen for the first time keeps the invariant.
LEMMA UpdateNewKeeps ==
  ASSUME IInv, NEW s \in Symbol, UpdateNew(s)
  PROVE  IInv'
<1>1. /\ Splits(tree, nyt, cache, s, tree', cache')
      /\ nyt' = NewNYT(tree) /\ node' = NewLeaf(tree)
      /\ candidate' = node' /\ toVisit' = <<Root>>
  BY UpdateNewSplits
<1>2. Built(tree', nyt', cache', node')
  BY <1>1, SplitKeepsBuilt
<1>3. tree' \in Tree /\ node' \in Allocated(tree') \ {nyt'}
  BY <1>1, SplitStep
<1>4. QED
  BY <1>1, <1>2, <1>3, StartKeepsSearch

\* A visit of the search.  The candidate it may choose has the weight of the
\* last one and ranks higher.
LEMMA VisitStep ==
  ASSUME IInv, Visit
  PROVE  /\ UNCHANGED <<tree, nyt, cache, node>>
         /\ node # Null
         /\ Eligible(tree, nyt, node, candidate')
         /\ tree.order[candidate] <= tree.order[candidate']
         /\ toVisit' \in Seq(Allocated(tree))
<1> DEFINE A == Allocated(tree)
           n == Head(toVisit)
<1>1. /\ UNCHANGED <<tree, nyt, cache, node>>
      /\ node # Null /\ toVisit # <<>>
  BY DEF Visit, Idle
<1>2. /\ Built(tree, nyt, cache, node) /\ Eligible(tree, nyt, node, candidate)
      /\ toVisit \in Seq(A)
  BY <1>1 DEF IInv, SearchInvariant
<1>3. n \in A /\ Tail(toVisit) \in Seq(A)
  BY <1>1, <1>2, HeadTailProperties
<1>4. tree.left[n] \in A \cup {Null} /\ tree.right[n] \in A \cup {Null}
  BY <1>2, <1>3 DEF Built, Linked, IsLeaf
<1>5. tree.order[candidate] \in Nat
  BY <1>2, Basics DEF Eligible
<1> HIDE DEF n, A
<1>6. CASE candidate = Root
  <2>1. toVisit' = Tail(toVisit) /\ candidate' = candidate
    BY <1>6 DEF Visit
  <2>2. QED
    BY <1>1, <1>2, <1>3, <1>5, <2>1 DEF A
<1>7. CASE candidate # Root
  <2>1. /\ toVisit' = Children(tree, n) \o Tail(toVisit)
        /\ candidate' = IF BetterToSwap(tree, candidate, n) THEN n ELSE candidate
    BY <1>7 DEF Visit, n
  <2>2. Present(tree.left[n]) \in Seq(A) /\ Present(tree.right[n]) \in Seq(A)
    BY <1>4 DEF Present
  <2>3. Children(tree, n) \in Seq(A)
    BY <2>2, ConcatProperties DEF Children
  <2>4. toVisit' \in Seq(A)
    BY <1>3, <2>1, <2>3, ConcatProperties
  <2>5. /\ Eligible(tree, nyt, node, candidate')
        /\ tree.order[candidate] <= tree.order[candidate']
    BY <1>2, <1>3, <2>1, VisitClimbs DEF A
  <2>6. QED
    BY <1>1, <2>4, <2>5 DEF A
<1>8. QED
  BY <1>6, <1>7

\* A visit of the search keeps the invariant.
LEMMA VisitKeeps ==
  ASSUME IInv, Visit
  PROVE  IInv'
<1>1. /\ tree' = tree /\ nyt' = nyt /\ cache' = cache /\ node' = node
      /\ Eligible(tree, nyt, node, candidate')
      /\ toVisit' \in Seq(Allocated(tree))
  BY VisitStep
<1>2. Built(tree, nyt, cache, node) /\ TypeOK
  BY DEF IInv
<1>3. Allocated(tree) \subseteq Node
  BY <1>2, Basics
<1>4. candidate' \in Node /\ toVisit' \in Seq(Node)
  BY <1>1, <1>3, SeqMonotonic DEF Eligible
<1>5. TypeOK'
  BY <1>1, <1>2, <1>4 DEF TypeOK
<1>6. SearchInvariant'
  BY <1>1 DEF SearchInvariant
<1>7. QED
  BY <1>1, <1>2, <1>5, <1>6 DEF IInv

\* What a slide does to the tree.
LEMMA SlideSlides ==
  ASSUME IInv, Slide
  PROVE  /\ Slides(tree, nyt, cache, node, candidate, tree')
         /\ nyt' = nyt /\ cache' = cache /\ node # Null /\ toVisit = <<>>
         /\ node' = tree'.parent[node] /\ candidate' = node'
         /\ toVisit' = IF node' = Null THEN <<>> ELSE <<Root>>
<1>1. node # Null
  BY DEF Slide, Idle
<1>2. Slides(tree, nyt, cache, node, candidate, tree')
  BY <1>1 DEF Slide, IInv, SearchInvariant, Slides
<1>3. QED
  BY <1>1, <1>2 DEF Slide, StartSlide

\* A slide keeps the invariant.
LEMMA SlideKeeps ==
  ASSUME IInv, Slide
  PROVE  IInv'
<1>1. /\ Slides(tree, nyt, cache, node, candidate, tree')
      /\ nyt' = nyt /\ cache' = cache
      /\ node' = tree'.parent[node] /\ candidate' = node'
      /\ toVisit' = IF node' = Null THEN <<>> ELSE <<Root>>
  BY SlideSlides
<1>2. Built(tree', nyt', cache', node')
  BY <1>1, SlideKeepsBuilt
<1>3. tree' \in Tree
  BY <1>1, SlideStep
<1>4. CASE node' = Null
  <2>1. /\ nyt' \in Node /\ cache' \in [Symbol -> Node \cup {Null}]
        /\ toVisit' = <<>> /\ candidate' = Null
    BY <1>1, <1>2, <1>4 DEF Built
  <2>2. TypeOK' /\ SearchInvariant'
    BY <1>3, <1>4, <2>1 DEF TypeOK, SearchInvariant
  <2>3. QED
    BY <1>2, <2>2 DEF IInv
<1>5. CASE node' # Null
  <2>1. node' \in Allocated(tree') \ {nyt'}
    BY <1>1, <1>5, SlideKeepsSearch
  <2>2. QED
    BY <1>1, <1>2, <1>3, <1>5, <2>1, StartKeepsSearch
<1>6. QED
  BY <1>4, <1>5

-----------------------------------------------------------------------------
(***************************************************************************)
(* The inductive invariant.                                                *)
(***************************************************************************)
\* The invariant holds initially.
LEMMA InitIInv == Init => IInv
<1> SUFFICES ASSUME Init PROVE IInv
  OBVIOUS
<1>1. /\ tree = NewTree /\ nyt = Root /\ node = Null /\ candidate = Null
      /\ toVisit = <<>> /\ cache = [s \in Symbol |-> Null]
  BY DEF Init
<1>2. Built(tree, nyt, cache, node)
  BY <1>1, NewTreeBuilt
<1>3. tree \in Tree /\ nyt \in Node /\ cache \in [Symbol -> Node \cup {Null}]
  BY <1>2 DEF Built
<1>4. QED
  BY <1>1, <1>2, <1>3 DEF IInv, TypeOK, SearchInvariant

\* Every step preserves it.
LEMMA NextIInv == IInv /\ [Next]_vars => IInv'
<1> SUFFICES ASSUME IInv, [Next]_vars PROVE IInv'
  OBVIOUS
<1>1. ASSUME NEW s \in Symbol, UpdateKnown(s) PROVE IInv'
  BY <1>1, UpdateKnownKeeps
<1>2. ASSUME NEW s \in Symbol, UpdateNew(s) PROVE IInv'
  BY <1>2, UpdateNewKeeps
<1>3. CASE Visit
  BY <1>3, VisitKeeps
<1>4. CASE Slide
  BY <1>4, SlideKeeps
<1>5. CASE UNCHANGED vars
  BY <1>5 DEF vars, IInv, TypeOK, SearchInvariant
<1>6. QED
  BY <1>1, <1>2, <1>3, <1>4, <1>5 DEF Next, Update

\* In every reachable state the inductive invariant holds.
THEOREM Inductive == Spec => []IInv
<1>1. Init => IInv
  BY InitIInv
<1>2. IInv /\ [Next]_vars => IInv'
  BY NextIInv
<1>3. QED
  BY <1>1, <1>2, PTL DEF Spec

-----------------------------------------------------------------------------
(***************************************************************************)
(* What IInv says.                                                         *)
(***************************************************************************)
\* updateTree never allocates more than two nodes per value of T and one, and
\* no order ever drops below zero: `currentOrder - 2` does not wrap around.
THEOREM TypeCorrect == Spec => []TypeOK
<1>1. IInv => TypeOK
  BY DEF IInv
<1>2. QED
  BY <1>1, Inductive, PTL

\* However the searches and the swaps fall out, the unique_ptr children and the
\* observer_ptr parents of the nodes stay inverse to each other.
THEOREM LinksCorrect == Spec => []LinksAgree
<1>1. IInv => LinksAgree
  BY DEF IInv, Built, LinksAgree
<1>2. QED
  BY <1>1, Inductive, PTL

\* Every internal node weighs what its children weigh, also while a call of
\* updateTree is on its way up and subtrees change places below it.
THEOREM WeightsCorrect == Spec => []WeightsAddUp
<1>1. IInv => WeightsAddUp
  BY DEF IInv, Built, WeightsAddUp
<1>2. QED
  BY <1>1, Inductive, PTL

\* No two nodes ever share an order, and the orders in use have no gaps.
THEOREM OrdersCorrect == Spec => []OrdersFormRanking
<1>1. IInv => OrdersFormRanking
  BY DEF IInv, Built, OrdersFormRanking
<1>2. QED
  BY <1>1, Inductive, PTL

\* The raw pointers of symbolNodes never go stale: each is the leaf that carries
\* the symbol, wherever swaps have put it.
THEOREM CacheCorrect == Spec => []CacheIsCurrent
<1>1. IInv => CacheIsCurrent
  BY DEF IInv, Built, CacheIsCurrent
<1>2. QED
  BY <1>1, Inductive, PTL

-----------------------------------------------------------------------------
(***************************************************************************)
(* The search covers the tree.                                             *)
(***************************************************************************)
\* A search that is over has found the leader.
LEMMA CoveredIsFound ==
  ASSUME SiblingInv, SearchDone
  PROVE  Leads(tree, node, candidate)
<1>1. /\ node # Null /\ toVisit = <<>>
      /\ Built(tree, nyt, cache, node) /\ ParentsAbove(tree)
  BY DEF SearchDone, Idle, SiblingInv, IInv, Ranked
<1>2. PICK U \in SUBSET Allocated(tree) :
        Pending(U) /\ \A n \in Allocated(tree) \ U : Settled(tree, node, candidate, n)
  BY <1>1 DEF SiblingInv, SearchCovers
<1>3. \A u \in U : u # Root /\ tree.parent[u] \in U
  BY <1>1, <1>2 DEF Pending, InSeq
<1>4. U = {}
  BY <1>1, <1>3, NoEndlessAscent
<1>5. QED
  BY <1>1, <1>2, <1>4 DEF Leads, SiblingInv, SearchCovers

\* When a search starts all nodes are below the root, which is to be visited.
LEMMA StartCovers ==
  ASSUME IInv', node' # Null, candidate' = node', toVisit' = <<Root>>
  PROVE  SearchCovers'
<1> DEFINE A == Allocated(tree)
<1>1. Built(tree', nyt', cache', node') /\ node' \in A' \ {nyt'}
  BY DEF IInv, SearchInvariant, Eligible
<1>2. \A n \in A' \ {Root} : tree'.parent[n] \in A'
  BY <1>1, Basics
<1>3. candidate' # tree'.parent[node']
  BY <1>1, StartEligible
<1> HIDE DEF A
<1>4. InSeq(Root, toVisit')
  BY DEF InSeq
<1>5. Pending(A)'
  BY <1>2, <1>4 DEF Pending
<1>6. QED
  BY <1>3, <1>5 DEF SearchCovers, A

\* What is in a sequence that has lost its head, or has been put before another.
LEMMA InTail ==
  ASSUME NEW S, NEW s \in Seq(S), s # <<>>, NEW x, InSeq(x, s), x # Head(s)
  PROVE  InSeq(x, Tail(s))
<1>1. PICK i \in 1..Len(s) : s[i] = x
  BY DEF InSeq
<1>2. i # 1
  BY <1>1
<1>3. Tail(s)[i - 1] = x /\ i - 1 \in 1..Len(Tail(s))
  BY <1>1, <1>2
<1>4. QED
  BY <1>3 DEF InSeq

\* What is in one of two sequences is in both of them joined.
LEMMA InConcat ==
  ASSUME NEW S, NEW s \in Seq(S), NEW t \in Seq(S), NEW x, InSeq(x, s) \/ InSeq(x, t)
  PROVE  InSeq(x, s \o t)
<1>1. CASE InSeq(x, s)
  <2>1. PICK i \in 1..Len(s) : s[i] = x
    BY <1>1 DEF InSeq
  <2>2. (s \o t)[i] = x /\ i \in 1..Len(s \o t)
    BY <2>1
  <2>3. QED
    BY <2>2 DEF InSeq
<1>2. CASE InSeq(x, t)
  <2>1. PICK i \in 1..Len(t) : t[i] = x
    BY <1>2 DEF InSeq
  <2>2. (s \o t)[i + Len(s)] = x /\ i + Len(s) \in 1..Len(s \o t)
    BY <2>1
  <2>3. QED
    BY <2>2 DEF InSeq
<1>3. QED
  BY <1>1, <1>2

\* The children of a node are in the sequence of its children.
LEMMA ChildIsInChildren ==
  ASSUME IInv, NEW n \in Allocated(tree)
  PROVE  /\ Children(tree, n) \in Seq(Allocated(tree))
         /\ \A u \in Allocated(tree) \ {Root} :
              tree.parent[u] = n => InSeq(u, Children(tree, n))
<1> DEFINE A == Allocated(tree)
<1>1. Built(tree, nyt, cache, node) /\ Null \notin A /\ n \in A
  BY Basics DEF IInv
<1>2. tree.left[n] \in A \cup {Null} /\ tree.right[n] \in A \cup {Null}
  BY <1>1 DEF Built, Linked, IsLeaf
<1>3. Present(tree.left[n]) \in Seq(A) /\ Present(tree.right[n]) \in Seq(A)
  BY <1>2 DEF Present
<1>4. Children(tree, n) \in Seq(A)
  BY <1>3, ConcatProperties DEF Children
<1>5. ASSUME NEW u \in A \ {Root}, tree.parent[u] = n
      PROVE  InSeq(u, Children(tree, n))
  <2>1. u \in {tree.left[n], tree.right[n]} /\ u # Null
    BY <1>1, <1>5 DEF Built, Linked
  <2>2. InSeq(u, Present(tree.left[n])) \/ InSeq(u, Present(tree.right[n]))
    BY <2>1 DEF InSeq, Present
  <2>3. QED
    BY <1>3, <2>2, InConcat DEF Children
<1>6. QED
  BY <1>4, <1>5

\* A visit settles the node it enters and leaves what is below it to be visited.
LEMMA VisitCovers ==
  ASSUME SiblingInv, Visit
  PROVE  SearchCovers'
<1> DEFINE A == Allocated(tree)
<1>1. /\ tree' = tree /\ nyt' = nyt /\ node' = node /\ node # Null
      /\ Eligible(tree, nyt, node, candidate) /\ candidate # tree.parent[node]
      /\ toVisit # <<>> /\ toVisit \in Seq(A)
      /\ IInv /\ Built(tree, nyt, cache, node) /\ Ranked(tree, nyt, node)
  BY VisitStep DEF SiblingInv, IInv, SearchInvariant, SearchCovers, Visit
<1>2. Tail(toVisit) \in Seq(A) /\ Head(toVisit) \in A
  BY <1>1, HeadTailProperties
<1> PICK h \in A : h = Head(toVisit)
  BY <1>2
<1>3. PICK U \in SUBSET A :
        Pending(U) /\ \A n \in A \ U : Settled(tree, node, candidate, n)
  BY <1>1 DEF SiblingInv, SearchCovers
<1>4. CASE candidate = Root
  <2>1. candidate' = Root
    BY <1>4 DEF Visit
  <2>2. \A n \in A : Settled(tree, node, candidate', n)
    BY <1>1, <2>1, RootSettles
  <2>3. {} \in SUBSET A /\ Pending({})'
    BY DEF Pending
  <2>4. QED
    BY <1>1, <1>4, <2>1, <2>2, <2>3 DEF SearchCovers
<1>5. CASE candidate # Root
  <2>1. /\ toVisit' = Children(tree, h) \o Tail(toVisit)
        /\ candidate' = IF BetterToSwap(tree, candidate, h) THEN h ELSE candidate
    BY <1>5 DEF Visit
  <2>2. /\ candidate' # tree.parent[node]
        /\ Settled(tree, node, candidate', h)
        /\ \A n \in A : Settled(tree, node, candidate, n)
                          => Settled(tree, node, candidate', n)
    BY <1>1, <1>5, <2>1, VisitSettles
  <2>3. /\ Children(tree, h) \in Seq(A)
        /\ \A u \in A \ {Root} : tree.parent[u] = h => InSeq(u, Children(tree, h))
    BY <1>1, ChildIsInChildren
  <2>4. Pending(U \ {h})'
    <3>1. ASSUME NEW u \in U \ {h}
          PROVE  InSeq(u, toVisit') \/ (u # Root /\ tree.parent[u] \in U \ {h})
      <4>1. CASE InSeq(u, toVisit)
        <5>1. InSeq(u, Tail(toVisit))
          BY <1>1, <3>1, <4>1, InTail
        <5>2. QED
          BY <1>2, <2>1, <2>3, <5>1, InConcat
      <4>2. CASE u # Root /\ tree.parent[u] \in U /\ tree.parent[u] # h
        BY <4>2
      <4>3. CASE u # Root /\ tree.parent[u] = h
        <5>1. InSeq(u, Children(tree, h))
          BY <2>3, <3>1, <4>3
        <5>2. QED
          BY <1>2, <2>1, <2>3, <5>1, InConcat
      <4>4. QED
        BY <1>3, <3>1, <4>1, <4>2, <4>3 DEF Pending
    <3>2. QED
      BY <1>1, <3>1 DEF Pending
  <2>5. \A n \in A \ (U \ {h}) : Settled(tree, node, candidate', n)
    BY <1>3, <2>2
  <2>6. QED
    BY <1>1, <2>2, <2>4, <2>5 DEF SearchCovers
<1>6. QED
  BY <1>4, <1>5

-----------------------------------------------------------------------------
(***************************************************************************)
(* The steps preserve SiblingInv.                                          *)
(***************************************************************************)
\* The start of a call, for a new symbol or a known one.
LEMMA UpdateKeepsSibling ==
  ASSUME SiblingInv, Update
  PROVE  SiblingInv'
<1>1. IInv' /\ IInv
  BY NextIInv DEF SiblingInv, Next
<1>2. PICK s \in Symbol : UpdateKnown(s) \/ UpdateNew(s)
  BY DEF Update
<1>3. candidate' = node' /\ toVisit' = <<Root>> /\ node = Null
  BY <1>2 DEF UpdateKnown, UpdateNew, StartSlide, Idle
<1>4. SearchCovers'
  <2>1. CASE node' = Null
    BY <2>1 DEF SearchCovers
  <2>2. QED
    BY <1>1, <1>3, <2>1, StartCovers
<1>5. Built(tree, nyt, cache, Null) /\ Ranked(tree, nyt, Null)
  BY <1>3 DEF SiblingInv, IInv
<1>6. CASE UpdateKnown(s)
  <2>1. tree' = tree /\ nyt' = nyt /\ node' = cache[s] /\ cache[s] # Null
    BY <1>6 DEF UpdateKnown, StartSlide
  <2>2. Ranked(tree', nyt', node')
    BY <1>5, <2>1, KnownLeaf
  <2>3. QED
    BY <1>1, <1>4, <2>2 DEF SiblingInv
<1>7. CASE UpdateNew(s)
  <2>1. Ranked(tree', nyt', node')
    BY <1>1, <1>5, <1>7, UpdateNewSplits, SplitKeepsRanked
  <2>2. QED
    BY <1>1, <1>4, <2>1 DEF SiblingInv
<1>8. QED
  BY <1>2, <1>6, <1>7

\* A visit changes the search only.
LEMMA VisitKeepsSibling ==
  ASSUME SiblingInv, Visit
  PROVE  SiblingInv'
<1>1. IInv'
  BY NextIInv DEF SiblingInv, Next
<1>2. tree' = tree /\ nyt' = nyt /\ node' = node
  BY DEF Visit
<1>3. QED
  BY <1>1, <1>2, VisitCovers DEF SiblingInv

\* A slide of the node and the leader of its weight.
LEMMA SlideOfLeader ==
  ASSUME SiblingInv, SearchDone
  PROVE  RankedSlides(tree, nyt, cache, node, candidate,
                      SlideNode(tree, node, candidate))
<1>1. Leads(tree, node, candidate)
  BY CoveredIsFound
<1>2. QED
  BY <1>1 DEF SiblingInv, IInv, SearchInvariant, SearchDone, Idle, RankedSlides, Slides

\* A slide keeps the sibling property.
LEMMA SlideKeepsSibling ==
  ASSUME SiblingInv, Slide
  PROVE  SiblingInv'
<1>1. IInv' /\ IInv
  BY NextIInv DEF SiblingInv, Next
<1>2. /\ nyt' = nyt /\ node' = tree'.parent[node] /\ candidate' = node'
      /\ toVisit' = IF node' = Null THEN <<>> ELSE <<Root>>
  BY <1>1, SlideSlides
<1>3. RankedSlides(tree, nyt, cache, node, candidate, tree')
  BY SlideOfLeader DEF SearchDone, Slide
<1>4. Ranked(tree', nyt', node')
  BY <1>2, <1>3, SlideKeepsRanked
<1>5. SearchCovers'
  <2>1. CASE node' = Null
    BY <2>1 DEF SearchCovers
  <2>2. QED
    BY <1>1, <1>2, <2>1, StartCovers
<1>6. QED
  BY <1>1, <1>4, <1>5 DEF SiblingInv

\* The sibling property holds initially.
LEMMA InitSibling == Init => SiblingInv
<1> SUFFICES ASSUME Init PROVE SiblingInv
  OBVIOUS
<1>1. IInv
  BY InitIInv
<1>2. tree = NewTree /\ nyt = Root /\ node = Null
  BY DEF Init
<1>3. Ranked(tree, nyt, node)
  BY <1>2, NewTreeBuilt
<1>4. QED
  BY <1>1, <1>2, <1>3 DEF SiblingInv, SearchCovers

\* Every step keeps the sibling property.
LEMMA NextSibling == SiblingInv /\ [Next]_vars => SiblingInv'
<1> SUFFICES ASSUME SiblingInv, [Next]_vars PROVE SiblingInv'
  OBVIOUS
<1>1. CASE Update
  BY <1>1, UpdateKeepsSibling
<1>2. CASE Visit
  BY <1>2, VisitKeepsSibling
<1>3. CASE Slide
  BY <1>3, SlideKeepsSibling
<1>4. CASE UNCHANGED vars
  <2>1. IInv'
    BY NextIInv DEF SiblingInv
  <2>2. SearchCovers' /\ Ranked(tree', nyt', node')
    BY <1>4 DEF vars, SiblingInv, SearchCovers, Pending
  <2>3. QED
    BY <2>1, <2>2 DEF SiblingInv
<1>5. QED
  BY <1>1, <1>2, <1>3, <1>4 DEF Next

-----------------------------------------------------------------------------
(***************************************************************************)
(* What SiblingInv says.                                                   *)
(***************************************************************************)
\* In every reachable state the tree is ranked and the search covers it.
THEOREM SiblingInductive == Spec => []SiblingInv
<1>1. QED
  BY InitSibling, NextSibling, PTL DEF Spec

\* No swap of slideAndIncrement ever moves a node below itself: whatever is
\* exchanged, a node ranks below its parent, so that the links stay a tree.
THEOREM ParentsRankHigher == Spec => []ParentRanksHigher
<1>1. SiblingInv => ParentRanksHigher
  BY DEF SiblingInv, Ranked, ParentRanksHigher
<1>2. QED
  BY <1>1, SiblingInductive, PTL

\* The first half of the sibling property, which makes the adaptive code a Huffman
\* code: ranks follow weights, also between the increments of one updateTree.
THEOREM RanksFollowWeights == Spec => []HeavierRanksHigher
<1>1. SiblingInv => HeavierRanksHigher
  BY DEF SiblingInv, Ranked, HeavierRanksHigher
<1>2. QED
  BY <1>1, SiblingInductive, PTL

\* The other half: the two children of a node keep neighbouring orders.
THEOREM SiblingsRankTogether == Spec => []SiblingsAdjacent
<1>1. SiblingInv => SiblingsAdjacent
  BY DEF SiblingInv, Ranked, SiblingsAdjacent
<1>2. QED
  BY <1>1, SiblingInductive, PTL

\* nytNode is the one node marked NYT, it ranks last, and no search or swap
\* touches it, its sibling's order or its parent's.
THEOREM NYTRemainsLast == Spec => []NYTLast
<1>1. SiblingInv => NYTLast
  BY DEF SiblingInv, IInv, Built, Ranked, NYTLast
<1>2. QED
  BY <1>1, SiblingInductive, PTL

\* findNodeForSwap, whose parent test depends on the candidate of the moment, still
\* returns the leader of the weight.
THEOREM SearchFindsLeader == Spec => []LeaderFound
<1>1. SiblingInv => LeaderFound
  BY CoveredIsFound DEF LeaderFound, Leads
<1>2. QED
  BY <1>1, SiblingInductive, PTL

\* swapNodes, which ignores a pair it cannot swap, is never given one; so the
\* exchange of orders that follows never happens without the exchange of places.
THEOREM SwapsAreReal == Spec => []SwapIsReal
<1>1. SiblingInv => SwapIsReal
  BY SlideOfLeader, CandidateSwappable DEF SwapIsReal
<1>2. QED
  BY <1>1, SiblingInductive, PTL

-----------------------------------------------------------------------------
(***************************************************************************)
(* The frequency table.                                                    *)
(***************************************************************************)
Freq == [s \in Symbol |-> Frequency(s)]
Samples == tree.weight[Root]
Owed == ~Idle /\ ~IsLeaf(tree, node)

\* A leaf other than NYT carries the cached symbol and no other one.
LEMMA LeafIsCached ==
  ASSUME IInv, node # Null, IsLeaf(tree, node)
  PROVE  \E s \in Symbol : \A z \in Symbol : cache[z] = node <=> z = s
<1>1. /\ node \in Allocated(tree) \ {nyt} /\ tree \in Tree
      /\ Current(tree, nyt, cache)
  BY DEF IInv, SearchInvariant, Eligible, Built
<1>2. tree.value[node] \in Symbol
  BY <1>1, AllocatedFacts DEF Tree
<1>3. \A z \in Symbol : cache[z] = node <=> z = tree.value[node]
  BY <1>1 DEF Current
<1>4. QED
  BY <1>2, <1>3

\* An internal node is no symbol's cached node.
LEMMA InnerIsNotCached ==
  ASSUME IInv, node # Null, ~IsLeaf(tree, node)
  PROVE  \A z \in Symbol : cache[z] # node
  BY DEF IInv, SearchInvariant, Eligible, Built, Current

\* The node after the one that slides is its parent: internal, or Null at the
\* root, and only there.
LEMMA SlideGoesUp ==
  ASSUME IInv, Slide
  PROVE  /\ node' = Null <=> node = Root
         /\ node' # Null => ~IsLeaf(tree', node')
         /\ IsLeaf(tree, node) => node # Root
<1>1. /\ Slides(tree, nyt, cache, node, candidate, tree')
      /\ node' = tree'.parent[node]
  BY SlideSlides
<1>2. /\ node \in Allocated(tree) \ {nyt}
      /\ Allocated(tree') = Allocated(tree) /\ Null \notin Allocated(tree)
  BY <1>1, SlideStep, AllocatedFacts
<1>3. Linked(tree')
  BY <1>1, SlideKeepsLinks
<1>4. node # Root => node' \in Allocated(tree)
                     /\ node \in {tree'.left[node'], tree'.right[node']}
  BY <1>1, <1>2, <1>3 DEF Linked
<1>5. node = Root => node' = Null
  BY <1>1, <1>3 DEF Linked
<1>6. IsLeaf(tree, node) => node # Root
  BY <1>2 DEF IInv, Built, InnerRoot
<1>7. QED
  BY <1>2, <1>4, <1>5, <1>6 DEF IsLeaf

\* Slide: the leaf's increment observes its symbol, the root's settles the
\* total, and those in between are invisible.
LEMMA SlideImplements ==
  ASSUME IInv, Slide
  PROVE  Table!Next \/ UNCHANGED Table!vars
<1>1. /\ node \in Allocated(tree) /\ Allocated(tree) \subseteq Node
      /\ Root \in Node /\ Null \notin Node
      /\ tree \in Tree /\ cache' = cache
      /\ cache \in [Symbol -> Node \cup {Null}]
      /\ \A x \in Node :
           tree'.weight[x] = tree.weight[x] + (IF x = node THEN 1 ELSE 0)
  <2>1. Slides(tree, nyt, cache, node, candidate, tree') /\ cache' = cache
    BY SlideSlides
  <2>2. QED
    BY <2>1, SlideStep, SlidesFrom, AllocatedFacts, NodeFacts
<1>2. \A x \in Node : tree.weight[x] \in Nat
  BY <1>1 DEF Tree
<1>3. \A z \in Symbol :
        Frequency(z)' = IF cache[z] = node THEN Frequency(z) + 1 ELSE Frequency(z)
  <2> TAKE z \in Symbol
  <2>1. CASE cache[z] = Null
    BY <1>1, <2>1 DEF Frequency
  <2>2. CASE cache[z] # Null
    <3>1. cache[z] \in Node
      BY <1>1, <2>2
    <3>2. Frequency(z)' = tree'.weight[cache[z]] /\ Frequency(z) = tree.weight[cache[z]]
      BY <1>1, <2>2 DEF Frequency
    <3>3. QED
      BY <1>1, <1>2, <3>1, <3>2
  <2>3. QED
    BY <2>1, <2>2
<1>4. Samples' = IF node = Root THEN Samples + 1 ELSE Samples
  BY <1>1, <1>2 DEF Samples
<1>5. /\ Owed' <=> node # Root
      /\ IsLeaf(tree, node) => node # Root
  BY SlideGoesUp DEF Owed, Idle
<1>6. node # Null
  BY <1>1
<1>7. CASE IsLeaf(tree, node)
  <2>1. PICK s \in Symbol : \A z \in Symbol : cache[z] = node <=> z = s
    BY <1>6, <1>7, LeafIsCached
  <2>2. Freq' = [Freq EXCEPT ![s] = @ + 1]
    BY <1>3, <2>1 DEF Freq
  <2>3. ~Owed /\ Owed' /\ Samples' = Samples
    BY <1>4, <1>5, <1>7 DEF Owed
  <2>4. Table!Observe(s)
    BY <2>2, <2>3 DEF Table!Observe, Freq, Samples, Owed
  <2>5. QED
    BY <2>4 DEF Table!Next
<1>8. CASE ~IsLeaf(tree, node)
  <2>1. Freq' = Freq
    BY <1>3, <1>6, <1>8, InnerIsNotCached DEF Freq
  <2>2. Owed
    BY <1>6, <1>8 DEF Owed, Idle
  <2>3. CASE node = Root
    <3>1. Table!Settle
      BY <1>4, <1>5, <2>1, <2>2, <2>3 DEF Table!Settle, Freq, Samples, Owed
    <3>2. QED
      BY <3>1 DEF Table!Next
  <2>4. CASE node # Root
    BY <1>4, <1>5, <2>1, <2>2, <2>4 DEF Table!vars, Freq, Samples, Owed
  <2>5. QED
    BY <2>3, <2>4
<1>9. QED
  BY <1>7, <1>8

\* A new symbol enters the table with frequency 0, which is what it had.
LEMMA SplitImplements ==
  ASSUME IInv, NEW s \in Symbol, UpdateNew(s)
  PROVE  UNCHANGED Table!vars
<1> DEFINE q == NewLeaf(tree)
<1>1. /\ q \in Node \ Allocated(tree) /\ tree \in Tree
      /\ nyt \in Allocated(tree)
      /\ node = Null /\ node' = q
      /\ cache[s] = Null /\ cache' = [cache EXCEPT ![s] = q]
      /\ cache \in [Symbol -> Node \cup {Null}]
      /\ tree'.weight = tree.weight
      /\ tree'.left[q] = tree.left[q] /\ tree'.right[q] = tree.right[q]
      /\ Null \notin Node
  <2>1. /\ Splits(tree, nyt, cache, s, tree', cache')
        /\ node = Null /\ node' = NewLeaf(tree)
    BY UpdateNewSplits
  <2>2. QED
    BY <2>1, SplitStep, SplitsFrom, NodeFacts
<1>2. IsLeaf(tree, q) /\ tree.weight[q] = 0
  BY <1>1 DEF IInv, Built, Blank
<1> HIDE DEF q
<1>3. Owed' = Owed
  BY <1>1, <1>2 DEF Owed, Idle, IsLeaf
<1>4. \A z \in Symbol : Frequency(z)' = Frequency(z)
  BY <1>1, <1>2 DEF Frequency
<1>5. Freq' = Freq
  BY <1>4 DEF Freq
<1>6. QED
  BY <1>1, <1>3, <1>5 DEF Table!vars, Freq, Samples, Owed

\* Every step is one of the table.
LEMMA StepImplements == IInv /\ [Next]_vars => [Table!Next]_(Table!vars)
<1> SUFFICES ASSUME IInv, [Next]_vars PROVE Table!Next \/ UNCHANGED Table!vars
  OBVIOUS
<1>1. ASSUME NEW s \in Symbol, UpdateKnown(s) PROVE UNCHANGED Table!vars
  <2>1. /\ tree' = tree /\ cache' = cache /\ node = Null /\ node' = cache[s]
        /\ cache[s] # Null
    BY <1>1 DEF UpdateKnown, StartSlide, Idle
  <2>2. IsLeaf(tree, cache[s])
    BY <2>1, KnownLeaf DEF IInv
  <2>3. IsLeaf(tree, node')
    BY <2>1, <2>2
  <2>4. Owed' = Owed /\ Freq' = Freq /\ Samples' = Samples
    BY <2>1, <2>3 DEF Owed, Idle, Freq, Frequency, Samples
  <2>5. QED
    BY <2>4 DEF Table!vars, Freq, Samples, Owed
<1>2. ASSUME NEW s \in Symbol, UpdateNew(s) PROVE UNCHANGED Table!vars
  BY <1>2, SplitImplements
<1>3. CASE Visit
  <2>1. tree' = tree /\ cache' = cache /\ node' = node
    BY <1>3, VisitStep
  <2>2. QED
    BY <2>1 DEF Table!vars, Frequency, Idle
<1>4. CASE Slide
  BY <1>4, SlideImplements
<1>5. CASE UNCHANGED vars
  BY <1>5 DEF vars, Table!vars, Frequency, Idle
<1>6. QED
  BY <1>1, <1>2, <1>3, <1>4, <1>5 DEF Next, Update

\* The empty tree is the empty table.
LEMMA InitImplements == Init => Table!Init
<1> SUFFICES ASSUME Init PROVE Table!Init
  OBVIOUS
<1>1. /\ node = Null /\ cache = [s \in Symbol |-> Null]
      /\ tree.weight = [n \in Node |-> 0]
  BY DEF Init, NewTree
<1>2. Samples = 0 /\ ~Owed
  BY <1>1, NodeFacts DEF Samples, Owed, Idle
<1>3. Freq = [s \in Symbol |-> 0]
  BY <1>1 DEF Freq, Frequency
<1>4. QED
  BY <1>2, <1>3 DEF Table!Init, Freq, Samples, Owed

\* Whatever the swaps do, the tree only counts: one call of updateTree adds one
\* to the weight of one symbol's leaf and one to the weight of the root.
THEOREM TreeImplementsTable ==
  Spec => Table!Init /\ [][Table!Next]_(Table!vars)
<1>1. Init => Table!Init
  BY InitImplements
<1>2. IInv /\ [Next]_vars => [Table!Next]_(Table!vars)
  BY StepImplements
<1>3. QED
  BY <1>1, <1>2, Inductive, PTL DEF Spec

-----------------------------------------------------------------------------
(***************************************************************************)
(* The calls in steps and the recursive calls.                             *)
(***************************************************************************)
\* A node has one leader, since no two nodes have the same rank.
LEMMA LeaderIsUnique ==
  ASSUME NEW t, NEW y, NEW k, NEW n, Built(t, y, k, n), ParentsAbove(t),
         NEW c, Eligible(t, y, n, c), Leads(t, n, c),
         NEW d, Eligible(t, y, n, d), Leads(t, n, d)
  PROVE  c = d
<1>1. /\ c \in Allocated(t) /\ t.weight[c] = t.weight[n] /\ c # t.parent[n]
      /\ d \in Allocated(t) /\ t.weight[d] = t.weight[n] /\ d # t.parent[n]
  BY DEF Eligible, Leads
<1>2. t.order[c] <= t.order[d] /\ t.order[d] <= t.order[c]
  BY <1>1 DEF Leads, Settled
<1>3. t.order[c] \in Nat /\ t.order[d] \in Nat
  BY <1>1, Basics
<1>4. t.order[c] = t.order[d]
  BY <1>2, <1>3
<1>5. QED
  BY <1>1, <1>4, Basics

\* The search in steps and findNodeForSwap come to the same node, so that a slide
\* makes of the tree what one call of slideAndIncrement makes of it.
LEMMA SlideIsTurn ==
  ASSUME SiblingInv, Slide
  PROVE  [tree |-> tree', node |-> node'] = Turn([tree |-> tree, node |-> node])
<1>1. /\ node # Null /\ SearchDone
      /\ tree' = SlideNode(tree, node, candidate) /\ node' = tree'.parent[node]
  BY DEF Slide, Idle, SearchDone, StartSlide
<1>2. /\ Built(tree, nyt, cache, node) /\ Ranked(tree, nyt, node) /\ ParentsAbove(tree)
      /\ Eligible(tree, nyt, node, candidate)
  BY <1>1 DEF SiblingInv, IInv, SearchInvariant, Ranked
<1>3. Leads(tree, node, candidate)
  BY <1>1, CoveredIsFound
<1>4. node \in Allocated(tree) \ {nyt}
  BY <1>2 DEF Eligible
<1>5. /\ Eligible(tree, nyt, node, FindNodeForSwap(tree, node))
      /\ Leads(tree, node, FindNodeForSwap(tree, node))
  BY <1>2, <1>4, SearchFindsLeaderOf
<1>6. candidate = FindNodeForSwap(tree, node)
  BY <1>2, <1>3, <1>5, LeaderIsUnique
<1>7. QED
  BY <1>1, <1>6 DEF Turn

\* What the call under way still has to do is what the rest of the recursion does.
Agrees ==
  returned = IF node = Null THEN TheCoder
             ELSE [tree |-> SlideAndIncrement(tree, node), nyt |-> nyt, cache |-> cache]

CallsInv == SiblingInv /\ Agrees

\* Every step keeps what relates the steps to the functions.
LEMMA CallsStep == CallsInv /\ [CallsNext]_<<vars, returned>> => CallsInv'
<1> SUFFICES ASSUME CallsInv, [CallsNext]_<<vars, returned>> PROVE CallsInv'
  OBVIOUS
<1>1. [Next]_vars
  BY DEF CallsNext, Next, Update
<1>2. SiblingInv /\ SiblingInv'
  BY <1>1, NextSibling DEF CallsInv
<1>3. ASSUME NEW s \in Symbol, UpdateKnown(s), returned' = UpdateTree(TheCoder, s)
      PROVE  Agrees'
  <2>1. /\ node' = cache[s] /\ cache[s] # Null
        /\ tree' = tree /\ nyt' = nyt /\ cache' = cache
    BY <1>3 DEF UpdateKnown, StartSlide
  <2>2. UpdateTree(TheCoder, s)
          = [tree |-> SlideAndIncrement(tree, cache[s]), nyt |-> nyt, cache |-> cache]
    BY <2>1 DEF UpdateTree, TheCoder
  <2>3. QED
    BY <1>3, <2>1, <2>2 DEF Agrees
<1>4. ASSUME NEW s \in Symbol, UpdateNew(s), returned' = UpdateTree(TheCoder, s)
      PROVE  Agrees'
  <2>1. /\ cache[s] = Null /\ node' = NewLeaf(tree)
        /\ tree' = SplitNYT(tree, nyt, s) /\ nyt' = NewNYT(tree)
        /\ cache' = [cache EXCEPT ![s] = NewLeaf(tree)]
    BY <1>4 DEF UpdateNew, StartSlide
  <2>2. node' # Null
    <3>1. node' \in Allocated(tree') /\ Null \notin Allocated(tree')
      <4>1. /\ Splits(tree, nyt, cache, s, tree', cache')
            /\ node' = NewLeaf(tree)
        BY <1>2, <1>4, UpdateNewSplits DEF SiblingInv
      <4>2. QED
        BY <4>1, SplitStep, SplitsFrom, AllocatedFacts
    <3>2. QED
      BY <3>1
  <2>3. UpdateTree(TheCoder, s)
          = [tree |-> SlideAndIncrement(tree', node'), nyt |-> nyt', cache |-> cache']
    BY <2>1 DEF UpdateTree, TheCoder
  <2>4. QED
    BY <1>4, <2>2, <2>3 DEF Agrees
<1>5. ASSUME Visit, UNCHANGED returned PROVE Agrees'
  <2>1. tree' = tree /\ nyt' = nyt /\ cache' = cache /\ node' = node
    BY <1>5 DEF Visit
  <2>2. QED
    BY <1>5, <2>1 DEF CallsInv, Agrees, TheCoder
<1>6. ASSUME Slide, UNCHANGED returned PROVE Agrees'
  <2> DEFINE up == Turn([tree |-> tree, node |-> node])
  <2>1. node # Null /\ nyt' = nyt /\ cache' = cache
    BY <1>6 DEF Slide, Idle
  <2>2. up.tree = tree' /\ up.node = node'
    <3> HIDE DEF up
    <3>1. up = [tree |-> tree', node |-> node']
      BY <1>2, <1>6, SlideIsTurn DEF up
    <3>2. QED
      BY <3>1
  <2>3. /\ Built(tree, nyt, cache, node) /\ Ranked(tree, nyt, node)
        /\ node \in Allocated(tree) \ {nyt}
    BY <1>2, <2>1 DEF SiblingInv, IInv, SearchInvariant, Eligible
  <2>4. SlideAndIncrement(tree, node)
          = IF up.node = Null THEN up.tree ELSE SlideAndIncrement(up.tree, up.node)
    BY <2>3, SlideAndIncrementUnfolds
  <2> HIDE DEF up
  <2>5. returned = [tree |-> SlideAndIncrement(tree, node), nyt |-> nyt, cache |-> cache]
    BY <2>1 DEF CallsInv, Agrees
  <2>6. QED
    BY <1>6, <2>1, <2>2, <2>4, <2>5 DEF Agrees, TheCoder
<1>7. ASSUME UNCHANGED <<vars, returned>> PROVE Agrees'
  BY <1>7 DEF vars, CallsInv, Agrees, TheCoder
<1>8. Agrees'
  BY <1>3, <1>4, <1>5, <1>6, <1>7 DEF CallsNext
<1>9. QED
  BY <1>2, <1>8 DEF CallsInv

\* A call of updateTree in steps ends with the coder that the functions return:
\* what is proved of either is true of both.
THEOREM CallsAgree == CallsSpec => []StepsAgree
<1>1. CallsInit => CallsInv
  <2>1. CallsInit => SiblingInv
    BY InitSibling DEF CallsInit
  <2>2. CallsInit => Agrees
    BY DEF CallsInit, Init, Agrees, TheCoder, NewCoder
  <2>3. QED
    BY <2>1, <2>2 DEF CallsInv
<1>2. CallsInv /\ [CallsNext]_<<vars, returned>> => CallsInv'
  BY CallsStep
<1>3. CallsInv => StepsAgree
  BY DEF CallsInv, Agrees, StepsAgree, Idle
<1>4. QED
  BY <1>1, <1>2, <1>3, PTL DEF CallsSpec

-----------------------------------------------------------------------------
(***************************************************************************)
(* The sibling property makes the tree a Huffman tree.  From the lowest    *)
(* rank up its nodes are pairs of siblings, and joining the pairs in this  *)
(* order is what Huffman's algorithm does: each pair is the two lightest   *)
(* of what has not been joined.                                            *)
(***************************************************************************)
SiblingTree(t) ==
  /\ t \in Tree /\ Linked(t) /\ AddsUp(t, Null) /\ Ranking(t)
  /\ ParentsAbove(t) /\ HeavierAbove(t, Null) /\ Adjacent(t)

\* The nodes from some rank on, no pair taken apart: those not joined yet.
Upper(t, W) ==
  /\ W \subseteq Allocated(t) \ {Root}
  /\ \A l \in W, m \in Allocated(t) \ {Root} :
       t.order[l] <= t.order[m] \/ t.parent[l] = t.parent[m] => m \in W

\* The trees there are when only the nodes of W are still to be joined, and the
\* parents that joining these makes.
Trees(t, W) == {n \in W \cup {Root} : \A m \in W : t.parent[m] # n}
Parents(t, W) == {t.parent[m] : m \in W}
WeightsIn(t, S) == [n \in S |-> t.weight[n]]

\* a and b are the pair of the lowest rank.
LowestPair(t, W, a, b) ==
  /\ a \in W /\ b \in W /\ a # b
  /\ t.parent[a] = t.parent[b]
  /\ t.parent[a] \in W \cup {Root} /\ t.parent[a] \notin {a, b}
  /\ \A m \in W : t.order[a] <= t.order[m]
  /\ \A m \in W \ {a} : t.order[b] <= t.order[m]
  /\ \A m \in W : t.parent[m] = t.parent[a] => m \in {a, b}
  /\ \A m \in W : t.parent[m] \notin {a, b}
  /\ t.weight[t.parent[a]] = t.weight[a] + t.weight[b]

LEMMA PairExists ==
  ASSUME NEW t, SiblingTree(t), NEW W, Upper(t, W), W # {}
  PROVE  \E a, b : LowestPair(t, W, a, b)
<1> DEFINE A == Allocated(t)
           o == t.order
           p == t.parent
<1>1. /\ t \in Tree /\ A \subseteq Node /\ Root \in A /\ Null \notin A
      /\ o \in [Node -> Nat] /\ t.weight \in [Node -> Nat]
  BY AllocatedFacts DEF SiblingTree, Tree
<1>2. /\ p[Root] = Null
      /\ \A m \in A \ {Root} : p[m] \in A /\ m \in {t.left[p[m]], t.right[p[m]]}
      /\ \A m \in A : ~IsLeaf(t, m) => /\ t.left[m] \in A /\ t.right[m] \in A
                                       /\ t.left[m] # t.right[m]
                                       /\ p[t.left[m]] = m /\ p[t.right[m]] = m
  BY DEF SiblingTree, Linked
<1>3. /\ \A m \in A \ {Root} : o[m] < o[p[m]]
      /\ \A l, m \in A : o[l] = o[m] => l = m
      /\ \A m \in A : ~IsLeaf(t, m) =>
           \/ o[t.left[m]] = o[t.right[m]] + 1
           \/ o[t.right[m]] = o[t.left[m]] + 1
      /\ \A m \in A : ~IsLeaf(t, m) =>
           t.weight[t.left[m]] + t.weight[t.right[m]] = t.weight[m]
  <2>1. \A m \in A \ {Root} : o[m] < o[p[m]]
    BY DEF SiblingTree, ParentsAbove
  <2>2. \A l, m \in A : o[l] = o[m] => l = m
    BY DEF SiblingTree, Ranking
  <2>3. \A m \in A : ~IsLeaf(t, m) =>
           \/ o[t.left[m]] = o[t.right[m]] + 1
           \/ o[t.right[m]] = o[t.left[m]] + 1
    BY DEF SiblingTree, Adjacent
  <2>4. \A m \in A : ~IsLeaf(t, m) =>
           t.weight[t.left[m]] + t.weight[t.right[m]] = t.weight[m]
    <3> SUFFICES ASSUME NEW m \in A, ~IsLeaf(t, m)
                 PROVE  t.weight[t.left[m]] + t.weight[t.right[m]] = t.weight[m]
      OBVIOUS
    <3>1. t.weight[t.left[m]] + t.weight[t.right[m]]
            = t.weight[m] + (IF m = Null THEN 1 ELSE 0)
      BY DEF SiblingTree, AddsUp
    <3>2. m # Null /\ t.weight[m] \in Nat
      BY <1>1
    <3> QED BY <3>1, <3>2
  <2> QED BY <2>1, <2>2, <2>3, <2>4
<1>4. /\ W \subseteq A \ {Root}
      /\ \A l \in W, m \in A \ {Root} : o[l] <= o[m] \/ p[l] = p[m] => m \in W
  BY DEF Upper
<1> HIDE DEF A, o, p
<1>5. PICK a \in W : \A m \in W : o[a] <= o[m]
  <2> DEFINE R == {o[m] : m \in W}
  <2>1. R \subseteq Nat /\ R # {}
    BY <1>1, <1>4
  <2> HIDE DEF R
  <2>2. PICK r \in R : \A q \in R : r <= q
    BY <2>1, LeastNumber
  <2> QED BY <2>2 DEF R
<1> DEFINE z == p[a]
<1>6. a \in A \ {Root} /\ z \in A /\ a \in {t.left[z], t.right[z]}
  BY <1>2, <1>4
<1>7. ~IsLeaf(t, z)
  BY <1>1, <1>6 DEF IsLeaf
<1> DEFINE b == IF a = t.left[z] THEN t.right[z] ELSE t.left[z]
<1>8. /\ b \in A /\ a # b /\ p[b] = z /\ {a, b} = {t.left[z], t.right[z]}
  BY <1>2, <1>6, <1>7
<1>9. o[a] = o[b] + 1 \/ o[b] = o[a] + 1
  BY <1>3, <1>6, <1>7, <1>8
<1>10. t.weight[z] = t.weight[a] + t.weight[b]
  <2>1. t.weight[t.left[z]] + t.weight[t.right[z]] = t.weight[z]
    BY <1>3, <1>6, <1>7
  <2>2. t.weight[a] \in Nat /\ t.weight[b] \in Nat
    BY <1>1, <1>6, <1>8
  <2> QED BY <2>1, <2>2, <1>6, <1>8
<1> HIDE DEF b, z
<1>11. \A m \in A : o[m] \in Nat
  BY <1>1
<1>12. b # Root
  BY <1>1, <1>2, <1>6, <1>8
<1>13. b \in W
  BY <1>4, <1>6, <1>8, <1>12 DEF z
<1>14. o[b] = o[a] + 1
  <2>1. o[a] <= o[b] /\ o[a] \in Nat /\ o[b] \in Nat
    BY <1>5, <1>6, <1>8, <1>11, <1>13
  <2> QED BY <2>1, <1>9
<1>15. \A m \in W \ {a} : o[b] <= o[m]
  <2> SUFFICES ASSUME NEW m \in W \ {a} PROVE o[b] <= o[m]
    OBVIOUS
  <2>1. m \in A /\ o[a] <= o[m] /\ o[m] # o[a]
    BY <1>3, <1>4, <1>5, <1>6
  <2>2. o[a] \in Nat /\ o[m] \in Nat
    BY <2>1, <1>6, <1>11
  <2> QED BY <2>1, <2>2, <1>14
<1>16. o[a] < o[z] /\ o[b] < o[z]
  BY <1>3, <1>6, <1>8, <1>12 DEF z
<1>17. z \in W \cup {Root} /\ z \notin {a, b}
  <2>1. o[a] \in Nat /\ o[b] \in Nat /\ o[z] \in Nat
    BY <1>6, <1>8, <1>11
  <2>2. o[a] <= o[z] /\ z # a /\ z # b
    BY <2>1, <1>16
  <2> QED BY <2>2, <1>4, <1>6
<1>18. \A m \in W : p[m] = z => m \in {a, b}
  <2> SUFFICES ASSUME NEW m \in W, p[m] = z PROVE m \in {a, b}
    OBVIOUS
  <2>1. m \in {t.left[z], t.right[z]}
    BY <1>2, <1>4
  <2> QED BY <2>1, <1>8
<1>19. \A m \in W : p[m] \notin {a, b}
  <2> SUFFICES ASSUME NEW m \in W, p[m] \in {a, b} PROVE FALSE
    OBVIOUS
  <2>1. m \in A /\ o[a] <= o[m] /\ o[m] < o[p[m]]
    BY <1>3, <1>4, <1>5
  <2>2. o[a] \in Nat /\ o[b] \in Nat /\ o[m] \in Nat
    BY <2>1, <1>6, <1>8, <1>11
  <2>3. o[m] = o[a]
    BY <2>1, <2>2, <1>14
  <2>4. m = a
    BY <2>1, <2>3, <1>3, <1>6
  <2> QED BY <2>4, <1>17 DEF z
<1>20. /\ a \in W /\ b \in W /\ a # b /\ p[a] = p[b]
       /\ p[a] \in W \cup {Root} /\ p[a] \notin {a, b}
       /\ \A m \in W : o[a] <= o[m]
       /\ \A m \in W \ {a} : o[b] <= o[m]
       /\ \A m \in W : p[m] = p[a] => m \in {a, b}
       /\ \A m \in W : p[m] \notin {a, b}
       /\ t.weight[p[a]] = t.weight[a] + t.weight[b]
  BY <1>5, <1>8, <1>10, <1>13, <1>15, <1>17, <1>18, <1>19 DEF z
<1>21. LowestPair(t, W, a, b)
  BY <1>20 DEF LowestPair, o, p
<1> QED BY <1>21

\* Joining that pair is a step of Huffman's algorithm.
LEMMA PairMerges ==
  ASSUME NEW t, SiblingTree(t), NEW W, Upper(t, W), NEW a, NEW b, LowestPair(t, W, a, b),
         NEW U, U = W \ {a, b}, NEW z, z = t.parent[a]
  PROVE  /\ Upper(t, U) /\ U \subseteq W \ {a}
         /\ Merges(Trees(t, W), WeightsIn(t, Trees(t, W)), a, b,
                   Trees(t, U), WeightsIn(t, Trees(t, U)), z)
         /\ \A s \in Trees(t, W) : t.weight[a] <= t.weight[s]
         /\ \A s \in Trees(t, W) \ {a} : t.weight[b] <= t.weight[s]
         /\ z \notin Parents(t, U) /\ Parents(t, W) = Parents(t, U) \cup {z}
<1> DEFINE A == Allocated(t)
           o == t.order
           p == t.parent
           F == Trees(t, W)
           G == Trees(t, U)
<1>1. /\ A \subseteq Node /\ Root \in A /\ Null \notin A
      /\ o \in [Node -> Nat] /\ t.weight \in [Node -> Nat] /\ p[Root] = Null
  BY AllocatedFacts DEF SiblingTree, Tree, Linked
<1>2. /\ \A m \in A \ {Root} : p[m] \in A /\ o[m] < o[p[m]]
      /\ \A l, m \in A : o[l] = o[m] => l = m
  BY DEF SiblingTree, Linked, ParentsAbove, Ranking
<1>3. /\ W \subseteq A \ {Root}
      /\ \A l \in W, m \in A \ {Root} : o[l] <= o[m] \/ p[l] = p[m] => m \in W
  BY DEF Upper
<1>4. /\ a \in W /\ b \in W /\ a # b /\ p[a] = z /\ p[b] = z
      /\ z \in W \cup {Root} /\ z \notin {a, b}
      /\ \A m \in W : o[a] <= o[m]
      /\ \A m \in W \ {a} : o[b] <= o[m]
      /\ \A m \in W : p[m] = z => m \in {a, b}
      /\ \A m \in W : p[m] \notin {a, b}
      /\ t.weight[z] = t.weight[a] + t.weight[b]
  BY DEF LowestPair
<1>5. \A l, m \in A : o[l] <= o[m] => t.weight[l] <= t.weight[m]
  <2> SUFFICES ASSUME NEW l \in A, NEW m \in A, o[l] <= o[m], ~(t.weight[l] <= t.weight[m])
               PROVE  FALSE
    OBVIOUS
  <2>1. o[l] \in Nat /\ o[m] \in Nat /\ t.weight[l] \in Nat /\ t.weight[m] \in Nat
    BY <1>1
  <2>2. t.weight[m] < t.weight[l]
    BY <2>1
  <2>3. o[m] < o[l] \/ m = Null
    BY <2>2 DEF SiblingTree, HeavierAbove
  <2> QED BY <2>1, <2>3, <1>1
<1>6. F = {n \in W \cup {Root} : \A m \in W : p[m] # n}
  BY DEF Trees
<1>7. G = {n \in U \cup {Root} : \A m \in U : p[m] # n}
  BY DEF Trees
<1> HIDE DEF A, o, p, F, G
<1>8. U \subseteq W \ {a} /\ U \subseteq A \ {Root}
  BY <1>3
<1>9. ASSUME NEW l \in U, NEW m \in A \ {Root}, o[l] <= o[m] \/ p[l] = p[m]
      PROVE  m \in U
  <2>1. m \in W /\ l \in W /\ l # a /\ l # b
    BY <1>3, <1>9
  <2>2. m # a /\ m # b
    <3>1. CASE p[l] = p[m]
      <4>1. p[l] # z
        BY <2>1, <1>4
      <4> QED BY <3>1, <4>1, <1>4
    <3>2. CASE o[l] <= o[m]
      <4>1. o[b] <= o[l] /\ o[a] <= o[l] /\ o[a] <= o[b] /\ o[b] # o[l] /\ o[a] # o[l]
        BY <1>2, <1>3, <1>4, <2>1
      <4>2. o[a] \in Nat /\ o[b] \in Nat /\ o[l] \in Nat
        BY <1>1, <1>3, <1>4, <2>1
      <4>3. o[a] < o[l] /\ o[b] < o[l]
        BY <4>1, <4>2
      <4>4. o[m] \in Nat
        BY <1>1
      <4> QED BY <3>2, <4>2, <4>3, <4>4
    <3> QED BY <3>1, <3>2, <1>9
  <2> QED BY <2>1, <2>2
<1>10. Upper(t, U)
  BY <1>8, <1>9 DEF Upper, A, o, p
<1>11. a \in F /\ b \in F /\ z \notin F
  <2>1. a \in F
    BY <1>4, <1>6
  <2>2. b \in F
    BY <1>4, <1>6
  <2>3. z \notin F
    BY <1>4, <1>6
  <2> QED BY <2>1, <2>2, <2>3
<1>12. G = (F \ {a, b}) \cup {z}
  <2>1. ASSUME NEW n \in G PROVE n \in (F \ {a, b}) \cup {z}
    <3> SUFFICES ASSUME n # z PROVE n \in F \ {a, b}
      OBVIOUS
    <3>1. n \in U \cup {Root} /\ \A m \in U : p[m] # n
      BY <1>7
    <3>2. \A m \in W : p[m] # n
      BY <3>1, <1>4
    <3>3. n \notin {a, b}
      BY <3>1, <1>3, <1>4
    <3> QED BY <3>1, <3>2, <3>3, <1>6
  <2>2. ASSUME NEW n \in F \ {a, b} PROVE n \in G
    BY <1>6, <1>7
  <2>3. z \in G
    BY <1>4, <1>7
  <2> QED BY <2>1, <2>2, <2>3
<1>13. F \subseteq A /\ G \subseteq A
  BY <1>1, <1>3, <1>6, <1>7, <1>8
<1>14. \A s \in A : t.weight[s] \in Nat
  BY <1>1
<1>15. \A s \in F : s # Root => s \in W
  BY <1>6
<1>16. \A m \in W : o[m] <= o[Root]
  \* The root ranks above its children; by induction along the ranks above all.
  <2> SUFFICES ASSUME NEW m \in W, ~(o[m] <= o[Root]) PROVE FALSE
    OBVIOUS
  <2> DEFINE R == {RootOrder - o[n] : n \in {x \in A \ {Root} : o[Root] < o[x]}}
  <2>1. \A n \in A : o[n] \in Nat /\ o[n] <= RootOrder /\ RootOrder \in Nat
    <3>1. {o[n] : n \in A} = (RootOrder + 1 - t.used)..RootOrder
      BY DEF SiblingTree, Ranking, A, o
    <3>2. RootOrder \in Nat /\ t.used \in Nat
      BY OrderAssumption, AllocatedFacts DEF SiblingTree
    <3> SUFFICES ASSUME NEW n \in A PROVE o[n] \in Nat /\ o[n] <= RootOrder
      BY <3>2
    <3>3. o[n] \in (RootOrder + 1 - t.used)..RootOrder
      BY <3>1
    <3> QED BY <3>2, <3>3, <1>1
  <2>2. R \subseteq Nat
    BY <2>1
  <2>3. R # {}
    <3>1. m \in A \ {Root} /\ o[Root] < o[m]
      BY <2>1, <1>1, <1>3
    <3> QED BY <3>1
  <2> HIDE DEF R
  <2>4. PICK r \in R : \A q \in R : r <= q
    BY <2>2, <2>3, LeastNumber
  <2>5. PICK x \in A \ {Root} : o[Root] < o[x] /\ r = RootOrder - o[x]
    BY DEF R
  <2>6. p[x] \in A /\ o[x] < o[p[x]]
    BY <1>2
  <2>7. o[Root] < o[p[x]] /\ p[x] # Root
    BY <2>1, <2>5, <2>6, <1>1
  <2>8. RootOrder - o[p[x]] \in R
    BY <2>6, <2>7 DEF R
  <2>9. RootOrder - o[x] <= RootOrder - o[p[x]]
    BY <2>4, <2>5, <2>8
  <2> QED BY <2>1, <2>6, <2>9
<1>17. \A s \in F : t.weight[a] <= t.weight[s]
  <2> SUFFICES ASSUME NEW s \in F PROVE t.weight[a] <= t.weight[s]
    OBVIOUS
  <2>1. o[a] <= o[s]
    BY <1>4, <1>15, <1>16
  <2> QED BY <2>1, <1>3, <1>4, <1>5, <1>13
<1>18. \A s \in F \ {a} : t.weight[b] <= t.weight[s]
  <2> SUFFICES ASSUME NEW s \in F \ {a} PROVE t.weight[b] <= t.weight[s]
    OBVIOUS
  <2>1. o[b] <= o[s]
    BY <1>4, <1>15, <1>16
  <2> QED BY <2>1, <1>3, <1>4, <1>5, <1>13
<1>19. Parents(t, W) = {p[m] : m \in W} /\ Parents(t, U) = {p[m] : m \in U}
  BY DEF Parents, p
<1>20. z \notin Parents(t, U) /\ Parents(t, W) = Parents(t, U) \cup {z}
  BY <1>4, <1>19
<1> DEFINE w == WeightsIn(t, F)
           v == WeightsIn(t, G)
<1>21. /\ w \in [F -> Nat] /\ \A s \in F : w[s] = t.weight[s]
       /\ v \in [G -> Nat] /\ \A s \in G : v[s] = t.weight[s]
  BY <1>13, <1>14 DEF WeightsIn
<1> HIDE DEF w, v
<1>22. v[z] = w[a] + w[b]
  BY <1>4, <1>11, <1>12, <1>21
<1>23. \A s \in F \ {a, b} : v[s] = w[s]
  BY <1>12, <1>21
<1>24. Merges(F, w, a, b, G, v, z)
  BY <1>4, <1>11, <1>12, <1>21, <1>22, <1>23 DEF Merges
<1> QED BY <1>8, <1>10, <1>17, <1>18, <1>20, <1>24 DEF F, G, w, v

\* The lengths the paths of the tree have are the best for the trees of W, and cost
\* what their parents weigh.
Inside(t, W) == Total(t.weight, Parents(t, W))
CostIn(t, W, f) == CostOf(f, WeightsIn(t, Trees(t, W)), Trees(t, W))

Optimal(t, W) ==
  LET F == Trees(t, W)
      n == Cardinality(F)
  IN /\ \A D \in Nat : \A f : Kraft(f, F, D) => Inside(t, W) <= CostIn(t, W, f)
     /\ \A D \in Nat : n <= D =>
          \E f : /\ Kraft(f, F, D) /\ CostIn(t, W, f) = Inside(t, W)
                 /\ \A s \in F : f[s] < n /\ (f[s] >= 1 \/ F = {s})

LEMMA UpperFacts ==
  ASSUME NEW t, SiblingTree(t), NEW W, Upper(t, W)
  PROVE  /\ IsFiniteSet(Trees(t, W)) /\ Cardinality(Trees(t, W)) \in Nat
         /\ IsFiniteSet(Parents(t, W)) /\ Parents(t, W) \subseteq Node
         /\ WeightsIn(t, Trees(t, W)) \in [Trees(t, W) -> Nat]
         /\ t.weight \in [Node -> Nat] /\ Inside(t, W) \in Nat
<1> DEFINE F == Trees(t, W)
           P == Parents(t, W)
<1>1. /\ Allocated(t) \subseteq Node /\ Root \in Allocated(t) /\ IsFiniteSet(Node)
      /\ t.weight \in [Node -> Nat]
  <2>1. IsFiniteSet(Node)
    <3>1. MaxNodes \in Nat /\ Node = 1..MaxNodes
      BY NodeFacts
    <3> QED BY <3>1, FS_Interval
  <2>2. t \in Tree /\ t.weight \in [Node -> Nat]
    BY DEF SiblingTree, Tree
  <2> QED BY <2>1, <2>2, AllocatedFacts
<1>2. W \subseteq Allocated(t) \ {Root}
  BY DEF Upper
<1>3. \A m \in Allocated(t) \ {Root} : t.parent[m] \in Allocated(t)
  BY DEF SiblingTree, Linked
<1>4. F \subseteq Node /\ P \subseteq Node
  BY <1>1, <1>2, <1>3 DEF Trees, Parents
<1> HIDE DEF F, P
<1>5. IsFiniteSet(F) /\ IsFiniteSet(P) /\ Cardinality(F) \in Nat
  BY <1>1, <1>4, FS_Subset, FS_CardinalityType
<1>6. WeightsIn(t, F) \in [F -> Nat]
  BY <1>1, <1>4 DEF WeightsIn
<1>7. Total(t.weight, P) \in Nat
  <2> DEFINE f == t.weight
  <2>1. f \in [Node -> Nat]
    BY <1>1
  <2> HIDE DEF f
  <2>2. Total(f, P) \in Nat
    BY <2>1, <1>4, <1>5, UnitsFinite
  <2> QED BY <2>2 DEF f
<1> QED BY <1>1, <1>4, <1>5, <1>6, <1>7 DEF F, P, Inside

\* The root alone has a code of length 0.
LEMMA RootOptimal ==
  ASSUME NEW t, SiblingTree(t)
  PROVE  Optimal(t, {})
<1> DEFINE F == Trees(t, {})
           w == WeightsIn(t, F)
           c == Inside(t, {})
<1>1. Upper(t, {})
  BY DEF Upper
<1>2. /\ IsFiniteSet(F) /\ w \in [F -> Nat]
  BY <1>1, UpperFacts
<1>3. F = {Root} /\ Parents(t, {}) = {}
  BY DEF Trees, Parents
<1>4. c = 0
  BY <1>3, NoUnits DEF Inside
<1>5. Cardinality(F) = 1
  BY <1>3, FS_Singleton
<1> HIDE DEF F, w, c
<1>6. ASSUME NEW D \in Nat, NEW f, f \in [F -> 0..D]
      PROVE  CostOf(f, w, F) \in Nat
  BY <1>2, <1>6, FitFacts
<1>7. ASSUME NEW f, f \in [F -> Nat] PROVE Total(f, F) = f[Root]
  <2>1. Root \in F
    BY <1>3
  <2>2. Total(f, F) = Total(f, F \ {Root}) + f[Root] /\ f[Root] \in Nat
    BY <1>2, <1>7, <2>1, TotalWithout
  <2>3. F \ {Root} = {}
    BY <1>3
  <2>4. Total(f, F \ {Root}) = 0
    BY <2>3, NoUnits
  <2> QED BY <2>2, <2>4
<1>8. ASSUME NEW D \in Nat
      PROVE  \E f : /\ Kraft(f, F, D) /\ CostOf(f, w, F) = c
                    /\ \A s \in F : f[s] < Cardinality(F) /\ (f[s] >= 1 \/ F = {s})
  <2> DEFINE f == [s \in F |-> 0]
             r == Room(f, F, D)
             k == Costs(f, w, F)
  <2>1. f \in [F -> 0..D] /\ Root \in F
    BY <1>3
  <2>2. r \in [F -> Nat] /\ k \in [F -> Nat]
    BY <1>2, <2>1, FitFacts
  <2>3. r[Root] = 2 ^ D
    <3>1. r[Root] = 2 ^ (D - 0) /\ D - 0 = D
      BY <1>3, <2>1 DEF Room
    <3> QED BY <3>1
  <2>4. k[Root] = 0
    <3>1. k[Root] = w[Root] * 0 /\ w[Root] \in Nat
      BY <1>2, <2>1 DEF Costs
    <3> QED BY <3>1
  <2>5. \A s \in F : f[s] < Cardinality(F) /\ F = {s}
    BY <1>3, <1>5
  <2>6. 2 ^ D \in Nat
    BY PowersOfTwo
  <2> HIDE DEF f, r, k
  <2>7. Total(r, F) = 2 ^ D /\ Total(k, F) = 0
    BY <1>7, <2>2, <2>3, <2>4
  <2>8. Kraft(f, F, D)
    BY <2>1, <2>6, <2>7 DEF Kraft, r
  <2>9. CostOf(f, w, F) = c
    BY <2>7, <1>4 DEF CostOf, k
  <2> QED BY <2>5, <2>8, <2>9
<1>9. ASSUME NEW D \in Nat, NEW f, Kraft(f, F, D) PROVE c <= CostOf(f, w, F)
  <2>1. f \in [F -> 0..D]
    BY <1>9 DEF Kraft
  <2>2. CostOf(f, w, F) \in Nat
    BY <1>6, <2>1
  <2> QED BY <2>2, <1>4
<1> QED BY <1>8, <1>9 DEF Optimal, CostIn, F, w, c

\* Taking a pair apart again keeps what is best.
LEMMA PairOptimal ==
  ASSUME NEW t, SiblingTree(t), NEW W, Upper(t, W), NEW a, NEW b, LowestPair(t, W, a, b),
         NEW U, U = W \ {a, b}, Optimal(t, U)
  PROVE  Optimal(t, W)
<1> DEFINE z == t.parent[a]
           F == Trees(t, W)
           G == Trees(t, U)
           w == WeightsIn(t, F)
           v == WeightsIn(t, G)
           c == Inside(t, W)
           e == Inside(t, U)
           n == Cardinality(F)
           m == Cardinality(G)
<1>1. /\ Upper(t, U) /\ U \subseteq W \ {a}
      /\ Merges(F, w, a, b, G, v, z)
      /\ \A s \in F : t.weight[a] <= t.weight[s]
      /\ \A s \in F \ {a} : t.weight[b] <= t.weight[s]
      /\ z \notin Parents(t, U) /\ Parents(t, W) = Parents(t, U) \cup {z}
  BY PairMerges
<1>2. /\ IsFiniteSet(F) /\ n \in Nat /\ w \in [F -> Nat] /\ c \in Nat
      /\ IsFiniteSet(Parents(t, W)) /\ Parents(t, W) \subseteq Node
      /\ t.weight \in [Node -> Nat]
  BY UpperFacts
<1>3. /\ IsFiniteSet(G) /\ m \in Nat /\ v \in [G -> Nat] /\ e \in Nat
      /\ IsFiniteSet(Parents(t, U)) /\ Parents(t, U) \subseteq Node
  BY <1>1, UpperFacts
<1>4. /\ \A D \in Nat : \A f : Kraft(f, G, D) => e <= CostOf(f, v, G)
      /\ \A D \in Nat : m <= D =>
           \E f : /\ Kraft(f, G, D) /\ CostOf(f, v, G) = e
                  /\ \A s \in G : f[s] < m /\ (f[s] >= 1 \/ G = {s})
  BY DEF Optimal, CostIn
<1>5. \A s \in F : w[s] = t.weight[s]
  BY DEF WeightsIn
<1>6. t.weight[z] = t.weight[a] + t.weight[b]
  BY DEF LowestPair
<1>7. c = e + t.weight[z] /\ t.weight[z] \in Nat
  <2> DEFINE f == t.weight
             P == Parents(t, W)
             Q == Parents(t, U)
  <2>1. /\ f \in [Node -> Nat] /\ P \subseteq Node /\ Q \subseteq Node
        /\ IsFiniteSet(P) /\ P = Q \cup {z} /\ z \notin Q /\ z \in P
    BY <1>1, <1>2, <1>3
  <2> HIDE DEF f, P, Q, z
  <2> DEFINE g == [x \in P |-> f[x]]
  <2>2. g \in [P -> Nat] /\ g[z] = f[z] /\ P \ {z} = Q
    BY <2>1
  <2>3. Total(g, P) = Total(f, P)
    <3>1. \A x \in P : g[x] = f[x]
      OBVIOUS
    <3> HIDE DEF g
    <3> QED BY <3>1, TotalOfEqual
  <2>4. Total(g, Q) = Total(f, Q)
    <3>1. \A x \in Q : g[x] = f[x]
      BY <2>1
    <3> HIDE DEF g
    <3> QED BY <3>1, TotalOfEqual
  <2> HIDE DEF g
  <2>5. Total(g, P) = Total(g, P \ {z}) + g[z] /\ g[z] \in Nat
    BY <2>1, <2>2, TotalWithout
  <2>6. Total(f, P) = Total(f, Q) + f[z] /\ f[z] \in Nat
    BY <2>2, <2>3, <2>4, <2>5
  <2> QED BY <2>6 DEF Inside, f, P, Q
<1> HIDE DEF F, G, w, v, c, e, n, m, z
<1>8. /\ a \in F /\ b \in F /\ a # b /\ z \notin F \ {a, b} /\ G = (F \ {a, b}) \cup {z}
  BY <1>1 DEF Merges
<1>9. n = m + 1
  <2> DEFINE H == F \ {a, b}
  <2>1. IsFiniteSet(H)
    BY <1>2, FS_Subset
  <2>2. G = H \cup {z} /\ z \notin H
    BY <1>8
  <2>3. F = (H \cup {a}) \cup {b} /\ a \notin H /\ b \notin H \cup {a}
    BY <1>8
  <2> HIDE DEF H
  <2>4. Cardinality(H) \in Nat /\ IsFiniteSet(H \cup {a})
        /\ Cardinality(H \cup {a}) = Cardinality(H) + 1
    BY <2>1, <2>3, FS_AddElement, FS_CardinalityType
  <2>5. Cardinality((H \cup {a}) \cup {b}) = Cardinality(H \cup {a}) + 1
    BY <2>3, <2>4, FS_AddElement
  <2>6. Cardinality(H \cup {z}) = Cardinality(H) + 1
    BY <2>1, <2>2, FS_AddElement
  <2> QED BY <2>2, <2>3, <2>4, <2>5, <2>6 DEF n, m
<1>10. w[a] + w[b] = t.weight[z] /\ w[a] \in Nat /\ w[b] \in Nat
  BY <1>2, <1>5, <1>6, <1>8
<1>11. (\A s \in F : w[a] <= w[s]) /\ (\A s \in F \ {a} : w[b] <= w[s])
  BY <1>1, <1>5, <1>8
<1>12. ASSUME NEW D \in Nat, NEW f, Kraft(f, F, D) PROVE c <= CostOf(f, w, F)
  <2>1. /\ IsFiniteSet(G)
        /\ \E g : Kraft(g, G, D) /\ CostOf(g, v, G) + w[a] + w[b] <= CostOf(f, w, F)
    BY <1>1, <1>2, <1>11, <1>12, MergeLowers
  <2>2. PICK g : Kraft(g, G, D) /\ CostOf(g, v, G) + w[a] + w[b] <= CostOf(f, w, F)
    BY <2>1
  <2>3. e <= CostOf(g, v, G)
    BY <1>4, <2>2
  <2>4. CostOf(g, v, G) \in Nat
    <3>1. g \in [G -> 0..D]
      BY <2>2 DEF Kraft
    <3> QED BY <3>1, <1>3, FitFacts
  <2>5. CostOf(f, w, F) \in Nat
    <3>1. f \in [F -> 0..D]
      BY <1>12 DEF Kraft
    <3> QED BY <3>1, <1>2, FitFacts
  <2> DEFINE x == CostOf(g, v, G)
             y == CostOf(f, w, F)
  <2>6. x \in Nat /\ y \in Nat /\ x + w[a] + w[b] <= y /\ e <= x
    BY <2>2, <2>3, <2>4, <2>5
  <2> HIDE DEF x, y
  <2>7. c <= y
    BY <2>6, <1>3, <1>7, <1>10
  <2> QED BY <2>7 DEF y
<1>13. ASSUME NEW D \in Nat, n <= D
       PROVE  \E g : /\ Kraft(g, F, D) /\ CostOf(g, w, F) = c
                     /\ \A s \in F : g[s] < n /\ (g[s] >= 1 \/ F = {s})
  <2>1. m <= D
    BY <1>3, <1>9, <1>13
  <2>2. PICK f : /\ Kraft(f, G, D) /\ CostOf(f, v, G) = e
                 /\ \A s \in G : f[s] < m /\ (f[s] >= 1 \/ G = {s})
    BY <1>4, <2>1
  <2>3. f \in [G -> 0..D] /\ z \in G
    BY <2>2, <1>8 DEF Kraft
  <2>4. f[z] \in Nat /\ f[z] < m /\ f[z] < D
    BY <2>1, <2>2, <2>3, <1>3
  <2>5. \E g : /\ Kraft(g, F, D) /\ CostOf(g, w, F) = CostOf(f, v, G) + w[a] + w[b]
               /\ g = [s \in F |-> IF s \in {a, b} THEN f[z] + 1 ELSE f[s]]
    BY <1>1, <1>2, <2>2, <2>4, SplitRaises
  <2>6. PICK g : /\ Kraft(g, F, D) /\ CostOf(g, w, F) = CostOf(f, v, G) + w[a] + w[b]
                 /\ g = [s \in F |-> IF s \in {a, b} THEN f[z] + 1 ELSE f[s]]
    BY <2>5
  <2>7. CostOf(g, w, F) = c
    BY <2>2, <2>6, <1>3, <1>7, <1>10
  <2>8. ASSUME NEW s \in F PROVE g[s] < n /\ g[s] >= 1
    <3>1. CASE s \in {a, b}
      <4>1. g[s] = f[z] + 1
        BY <2>6, <3>1
      <4> QED BY <4>1, <2>4, <1>3, <1>9
    <3>2. CASE s \notin {a, b}
      <4>1. g[s] = f[s] /\ s \in G /\ s # z
        BY <2>6, <3>2, <1>8
      <4>2. f[s] < m /\ f[s] >= 1
        BY <4>1, <2>2, <2>3
      <4>3. f[s] \in Nat
        BY <4>1, <2>3
      <4> QED BY <4>1, <4>2, <4>3, <1>3, <1>9
    <3> QED BY <3>1, <3>2
  <2> QED BY <2>6, <2>7, <2>8
<1> QED BY <1>12, <1>13 DEF Optimal, CostIn, F, w, c, n

\* So the whole tree is as good as Huffman's.
LEMMA TreeOptimal ==
  ASSUME NEW t, SiblingTree(t)
  PROVE  Optimal(t, Allocated(t) \ {Root})
<1> DEFINE X == Allocated(t) \ {Root}
           P == {V \in SUBSET X : \A W \in SUBSET V : Upper(t, W) => Optimal(t, W)}
<1>1. IsFiniteSet(X)
  <2>1. t.used \in Nat /\ Allocated(t) = 1..t.used
    BY AllocatedFacts DEF SiblingTree
  <2>2. IsFiniteSet(Allocated(t))
    BY <2>1, FS_Interval
  <2> QED BY <2>2, FS_Subset
<1>2. {} \in P
  <2>1. \A W \in SUBSET {} : W = {}
    OBVIOUS
  <2>2. Optimal(t, {})
    BY RootOptimal
  <2> QED BY <2>1, <2>2
<1>3. ASSUME NEW V \in SUBSET X, V # {}, \A x \in V : V \ {x} \in P
      PROVE  V \in P
  <2> SUFFICES ASSUME NEW W \in SUBSET V, Upper(t, W) PROVE Optimal(t, W)
    OBVIOUS
  <2>1. CASE W = {}
    BY <2>1, RootOptimal
  <2>2. CASE W # {}
    <3>1. PICK a, b : LowestPair(t, W, a, b)
      BY <2>2, PairExists
    <3>2. a \in W
      BY <3>1 DEF LowestPair
    <3> DEFINE U == W \ {a, b}
    <3>3. U \in SUBSET (V \ {a}) /\ a \in V
      BY <3>2
    <3>4. V \ {a} \in P
      BY <1>3, <3>3
    <3>5. Upper(t, U)
      BY <3>1, PairMerges
    <3>6. Optimal(t, U)
      BY <3>3, <3>4, <3>5
    <3> HIDE DEF U
    <3>7. U = W \ {a, b}
      BY DEF U
    <3> QED BY <3>1, <3>6, <3>7, PairOptimal
  <2> QED BY <2>1, <2>2
<1> HIDE DEF P
<1>4. X \in P
  <2> HIDE DEF X
  <2> QED BY <1>1, <1>2, <1>3, SetInduction
<1>5. Upper(t, X)
  BY DEF Upper
<1> QED BY <1>4, <1>5 DEF P

\* At first the leaves are the trees, and the parents all other nodes.
LeavesOf(t) == {n \in Allocated(t) : IsLeaf(t, n)}

LEMMA WholeTree ==
  ASSUME NEW t, SiblingTree(t), NEW X, X = Allocated(t) \ {Root}
  PROVE  /\ Upper(t, X) /\ Trees(t, X) = LeavesOf(t)
         /\ Parents(t, X) = Allocated(t) \ LeavesOf(t)
<1> DEFINE A == Allocated(t)
           p == t.parent
<1>1. Root \in A /\ Null \notin A
  BY AllocatedFacts DEF SiblingTree
<1>2. /\ p[Root] = Null
      /\ \A m \in A \ {Root} : p[m] \in A /\ m \in {t.left[p[m]], t.right[p[m]]}
      /\ \A m \in A : ~IsLeaf(t, m) => t.left[m] \in A /\ p[t.left[m]] = m
  BY DEF SiblingTree, Linked
<1> HIDE DEF A, p
<1>3. \A n \in A : ~IsLeaf(t, n) <=> \E m \in X : p[m] = n
  <2> SUFFICES ASSUME NEW n \in A
               PROVE  ~IsLeaf(t, n) <=> \E m \in X : p[m] = n
    OBVIOUS
  <2>1. ASSUME ~IsLeaf(t, n) PROVE \E m \in X : p[m] = n
    <3>1. t.left[n] \in A /\ p[t.left[n]] = n
      BY <2>1, <1>2
    <3>2. t.left[n] # Root
      BY <3>1, <1>1, <1>2
    <3> QED BY <3>1, <3>2 DEF A
  <2>2. ASSUME NEW m \in X, p[m] = n PROVE ~IsLeaf(t, n)
    <3>1. m \in A \ {Root}
      BY DEF A
    <3>2. m \in {t.left[n], t.right[n]} /\ m # Null
      BY <2>2, <3>1, <1>1, <1>2
    <3> QED BY <3>2 DEF IsLeaf
  <2> QED BY <2>1, <2>2
<1>4. X \cup {Root} = A /\ \A m \in X : p[m] \in A
  BY <1>1, <1>2 DEF A
<1>5. Trees(t, X) = LeavesOf(t)
  BY <1>3, <1>4 DEF Trees, LeavesOf, p, A
<1>6. Parents(t, X) = A \ LeavesOf(t)
  BY <1>3, <1>4 DEF Parents, LeavesOf, p, A
<1> QED BY <1>5, <1>6 DEF Upper, A

\* The internal nodes weigh what the shortest prefix code for the leaves takes.
LEMMA TreeIsShortest ==
  ASSUME NEW t, SiblingTree(t), NEW y, y \in LeavesOf(t), t.weight[y] = 0
  PROVE  SumFunction([n \in Allocated(t) \ LeavesOf(t) |-> t.weight[n]])
           = LeastCost([n \in LeavesOf(t) |-> t.weight[n]])
<1> DEFINE X == Allocated(t) \ {Root}
           F == LeavesOf(t)
           P == Allocated(t) \ F
           w == WeightsIn(t, F)
           n == Cardinality(F)
           c == Total(t.weight, P)
<1>1. Upper(t, X) /\ Trees(t, X) = F /\ Parents(t, X) = P
  BY WholeTree
<1>2. /\ IsFiniteSet(F) /\ n \in Nat /\ IsFiniteSet(P) /\ P \subseteq Node
      /\ w \in [F -> Nat] /\ t.weight \in [Node -> Nat] /\ c \in Nat
  BY <1>1, UpperFacts DEF Inside
<1>3. /\ \A D \in Nat : \A f : Kraft(f, F, D) => c <= CostOf(f, w, F)
      /\ \A D \in Nat : n <= D =>
           \E f : /\ Kraft(f, F, D) /\ CostOf(f, w, F) = c
                  /\ \A s \in F : f[s] < n /\ (f[s] >= 1 \/ F = {s})
  <2>1. Optimal(t, X)
    BY TreeOptimal
  <2> HIDE DEF X, F, P
  <2>2. Trees(t, X) = F
    BY <1>1
  <2>3. Inside(t, X) = c
    BY <1>1 DEF Inside
  <2>4. ASSUME NEW f PROVE CostIn(t, X, f) = CostOf(f, w, F)
    BY <1>1 DEF CostIn
  <2> HIDE DEF w, c
  <2>5. ASSUME NEW D \in Nat, NEW f, Kraft(f, F, D) PROVE c <= CostOf(f, w, F)
    <3>1. Inside(t, X) <= CostIn(t, X, f)
      BY <2>1, <2>2, <2>5 DEF Optimal
    <3> QED BY <2>3, <2>4, <3>1
  <2>6. ASSUME NEW D \in Nat, n <= D
        PROVE  \E f : /\ Kraft(f, F, D) /\ CostOf(f, w, F) = c
                      /\ \A s \in F : f[s] < n /\ (f[s] >= 1 \/ F = {s})
    <3>1. PICK f : /\ Kraft(f, F, D) /\ CostIn(t, X, f) = Inside(t, X)
                   /\ \A s \in F : f[s] < n /\ (f[s] >= 1 \/ F = {s})
      BY <2>1, <2>2, <2>6 DEF Optimal
    <3>2. CostOf(f, w, F) = c
      BY <2>3, <2>4, <3>1
    <3> QED BY <3>1, <3>2
  <2> QED BY <2>5, <2>6
<1>4. w[y] = 0
  BY DEF WeightsIn
<1>5. SumFunction([x \in P |-> t.weight[x]]) = c
  <2> DEFINE g == [x \in P |-> t.weight[x]]
             f == t.weight
  <2>1. g \in [P -> Nat]
    BY <1>2
  <2>2. \A x \in P : g[x] = f[x]
    OBVIOUS
  <2> HIDE DEF g, f, P
  <2>3. SumFunction(g) = Total(g, P)
    BY <1>2, <2>1, SumCounts
  <2>4. Total(g, P) = Total(f, P)
    BY <2>2, TotalOfEqual
  <2> QED BY <2>3, <2>4 DEF g, f
<1>6. y \in F
  OBVIOUS
<1> HIDE DEF X, F, P, w, n, c
<1>7. PICK f : /\ Kraft(f, F, n) /\ CostOf(f, w, F) = c
               /\ \A s \in F : f[s] < n /\ (f[s] >= 1 \/ F = {s})
  BY <1>2, <1>3
<1>8. f \in [F -> 0..n]
  BY <1>7 DEF Kraft
<1>9. LeastCost(w) = c
  <2>1. CASE \A s \in F : f[s] >= 1
    <3>1. f \in [F -> 1..n]
      <4>1. f = [s \in F |-> f[s]]
        BY <1>8
      <4>2. \A s \in F : f[s] \in 1..n
        BY <1>2, <1>8, <2>1
      <4> QED BY <4>1, <4>2
    <3>2. \A g : Kraft(g, F, n) /\ (\A s \in F : g[s] >= 1) => CostOf(f, w, F) <= CostOf(g, w, F)
      BY <1>2, <1>3, <1>7
    <3> QED BY <1>2, <1>7, <3>1, <3>2, LeastCostIs DEF n
  <2>2. CASE ~(\A s \in F : f[s] >= 1)
    <3>1. F = {y}
      BY <2>2, <1>6, <1>7
    <3>2. n = 1
      BY <3>1, FS_Singleton DEF n
    <3> DEFINE p == [s \in F |-> 1]
    <3>3. p \in [F -> 1..1] /\ p \in [F -> 0..1] /\ p[y] = 1
      BY <3>1
    <3> HIDE DEF p
    <3>4. ASSUME NEW g, g \in [F -> Nat] PROVE Total(g, F) = g[y]
      <4>1. Total(g, F) = Total(g, F \ {y}) + g[y] /\ g[y] \in Nat
        BY <1>2, <1>6, <3>4, TotalWithout
      <4>2. F \ {y} = {}
        BY <3>1
      <4>3. Total(g, F \ {y}) = 0
        BY <4>2, NoUnits
      <4> QED BY <4>1, <4>3
    <3>5. ASSUME NEW g, g \in [F -> 0..1] PROVE CostOf(g, w, F) = 0
      <4> DEFINE k == Costs(g, w, F)
      <4>1. k \in [F -> Nat]
        BY <1>2, <3>5, FitFacts
      <4>2. k[y] = w[y] * g[y] /\ g[y] \in Nat
        BY <1>6, <3>5 DEF Costs
      <4> DEFINE j == g[y]
      <4>3. k[y] = 0 * j /\ j \in Nat
        BY <4>2, <1>4
      <4> HIDE DEF k, j
      <4>4. Total(k, F) = 0
        BY <4>1, <4>3, <3>4
      <4> QED BY <4>4 DEF CostOf, k
    <3>6. CostOf(f, w, F) = 0
      BY <1>8, <3>2, <3>5
    <3>7. CostOf(p, w, F) = 0
      BY <3>3, <3>5
    <3>8. Kraft(p, F, 1)
      <4> DEFINE r == Room(p, F, 1)
      <4>1. r \in [F -> Nat]
        BY <1>2, <3>3, FitFacts
      <4>2. r[y] = 2 ^ (1 - 1) /\ 1 - 1 = 0
        BY <1>6, <3>3 DEF Room
      <4>3. 2 ^ 0 = 1 /\ 2 ^ (0 + 1) = 2 * 2 ^ 0 /\ 0 + 1 = 1
        BY PowersOfTwo
      <4> HIDE DEF r
      <4>4. Total(r, F) = r[y]
        BY <4>1, <3>4
      <4>5. Total(r, F) <= 2 ^ 1
        BY <4>2, <4>3, <4>4
      <4> QED BY <4>5, <3>3 DEF Kraft, r
    <3>9. ASSUME NEW g, Kraft(g, F, 1) PROVE CostOf(p, w, F) <= CostOf(g, w, F)
      <4>1. g \in [F -> 0..1]
        BY <3>9 DEF Kraft
      <4> QED BY <4>1, <3>5, <3>7
    <3>10. LeastCost(w) = CostOf(p, w, F)
      <4>1. 1 = Cardinality(F)
        BY <3>2 DEF n
      <4>2. \A g : Kraft(g, F, 1) /\ (\A s \in F : g[s] >= 1) => CostOf(p, w, F) <= CostOf(g, w, F)
        BY <3>9
      <4> QED BY <1>2, <3>3, <3>8, <4>1, <4>2, LeastCostIs
    <3> QED BY <1>7, <3>6, <3>7, <3>10
  <2> QED BY <2>1, <2>2
<1> QED BY <1>5, <1>9 DEF WeightsIn, P, F, w

\* Between two calls the tree has the sibling property, and NYT weighs nothing.
LEMMA IdleIsSibling ==
  ASSUME SiblingInv, Idle
  PROVE  SiblingTree(tree) /\ nyt \in LeavesOf(tree) /\ tree.weight[nyt] = 0
<1>1. Built(tree, nyt, cache, Null) /\ Ranked(tree, nyt, Null)
  BY DEF SiblingInv, IInv, Idle
<1>2. SiblingTree(tree)
  BY <1>1 DEF Built, Ranked, SiblingTree
<1>3. nyt \in LeavesOf(tree) /\ tree.weight[nyt] = 0
  BY <1>1 DEF Built, RanksLast, LeavesOf
<1> QED BY <1>2, <1>3

\* What slideAndIncrement keeps the ranks in order for: between two symbols no prefix
\* code takes fewer bits for what updateTree has counted than the tree does.
THEOREM TreeStaysOptimal == Spec => []CodeIsOptimal
<1>1. ASSUME SiblingInv PROVE CodeIsOptimal
  <2>1. ASSUME Idle
        PROVE  SumFunction([n \in Allocated(tree) \ Leaves |-> tree.weight[n]])
                 = LeastCost([n \in Leaves |-> tree.weight[n]])
    <3>1. SiblingTree(tree) /\ nyt \in LeavesOf(tree) /\ tree.weight[nyt] = 0
      BY <1>1, <2>1, IdleIsSibling
    <3>2. Leaves = LeavesOf(tree)
      BY DEF Leaves, LeavesOf
    <3>3. SumFunction([n \in Allocated(tree) \ LeavesOf(tree) |-> tree.weight[n]])
            = LeastCost([n \in LeavesOf(tree) |-> tree.weight[n]])
      BY <3>1, TreeIsShortest
    <3> QED BY <3>2, <3>3
  <2> QED BY <2>1 DEF CodeIsOptimal
<1> QED BY <1>1, SiblingInductive, PTL
=============================================================================
