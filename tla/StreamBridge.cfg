SPECIFICATION Spec
CONSTANTS
  c1 = c1
  c2 = c2
  Calls = {c1, c2}
  Batches <- ModelBatches
  MaxEvents = 2
  MaxLives = 2
SYMMETRY Symmetry
INVARIANTS TypeOK SeqsUnique BatchInOrder RecentIsComplete
CHECK_DEADLOCK FALSE
