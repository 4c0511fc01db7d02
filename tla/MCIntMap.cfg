SPECIFICATION Spec
CONSTANTS
  Key <- MCKey
  Value = {a, b}
  Node = {n1, n2, n3}
  Size = 2
  Null = Null
SYMMETRY MCSymmetry
INVARIANTS LinksOK Reachable CountOK
PROPERTY BehavesAsMap
