SPECIFICATION DSpec
CONSTANTS
  Nodes = {n1, n2, n3}
  m_head = m_head
  NULL = NULL
  kBitsPerWord = 2
  Words = 2
  Counts = {0, 1, 2, 3, 4}
INVARIANTS TypeOK Ring BitmapIsSet
PROPERTIES ImplementsDeque NeighboursUntouched
