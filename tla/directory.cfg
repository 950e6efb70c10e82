SPECIFICATION Spec
CONSTANTS
  a = a  b = b  c = c
  Nodes = {a, b, c}
  SubBlocks = {1, 2}
  Spans <- TwoSizes
  None = None
INVARIANTS TypeOK CountExact OwnerIsSharer SoleSharer
