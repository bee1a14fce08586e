\* Five symbols in every order, up to eight observations; RootOrder is exactly
\* twice the number of symbols, as 512 is for uint8_t.
SPECIFICATION CallsSpec
CONSTANTS
  Symbol = {s0, s1, s2, s3, s4}
  Zero = s0
  RootOrder = 10
  MaxWeight = 8
SYMMETRY Interchangeable
\* The model stops at MaxWeight.
CHECK_DEADLOCK FALSE
INVARIANTS
  TypeOK
  LinksAgree
  WeightsAddUp
  OrdersFormRanking
  ParentRanksHigher
  HeavierRanksHigher
  SiblingsAdjacent
  NYTLast
  CacheIsCurrent
  SwapIsReal
  LeaderFound
  CodeIsOptimal
  StepsAgree
