CONSTANTS
  parent = parent
  child = child
  Agents = {parent, child}
  NoAgent = none
  Kernels = {k1, k2}
  Requests <- AnyIDs
  MaxTrust = 1
  Neutral = 0
  MinTrust = 1
  Inherit <- Faithful
  MaxChildren = 1
  Known = {parent}
  Policies = {p1, p2}
  NoPolicy = nil
  MaxForeign = 1
SYMMETRY Symmetry
SPECIFICATION Spec
INVARIANTS TypeOK OvershootBounded DecisionEarned ExpectedIfUndisturbed NoOrphanTrust
