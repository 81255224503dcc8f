SPECIFICATION SortSpec
CONSTANTS
  n1 = n1
  n2 = n2
  n3 = n3
  n4 = n4
  n5 = n5
  a = a
  b = b
  Nodes = {n1, n2, n3, n4, n5}
  Lists = {a, b}
  Null = Null
  MaxKey = 2
SYMMETRY NodeSymmetry
INVARIANTS
  SortTypeOK
  ListsIntact
  VisitsEach
  RunsSorted
  SortIsFast
