CONSTANTS
  FilterLists <- MCFilterLists
  TableFilters <- MCTableFilters
SPECIFICATION Spec
\* The pass runs once over its input and ends.
CHECK_DEADLOCK FALSE
INVARIANTS
  TypeOK
  ThrowingListsKeepOrder
  ReorderableListsCheapestFirst
  InitialOrderSortedPermutation
