CONSTANTS
  w1 = w1
  w2 = w2
  w3 = w3
  Writers = {w1, w2, w3}
  MaxEvents = 5
SYMMETRY Symmetry
SPECIFICATION ASpec
INVARIANTS
  ChainVerifies
