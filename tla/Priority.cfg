CONSTANTS
  Servers = {s1, s2}
  Classes = {normal, high}
  Handles = {h1, h2, h3}
  NORMAL = normal
  None = None
SYMMETRY Symmetry
SPECIFICATION Spec
INVARIANT PriorityInForce
