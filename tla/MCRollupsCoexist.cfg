\* Two writers of two sources, and a rebuild.
SPECIFICATION Spec
CONSTANTS
  d1 = d1
  d2 = d2
  d3 = d3
  m1 = m1
  m2 = m2
  Sources = {a, b}
  Dates = {d1, d3}
  Bucket <- MCBucket
  Coverage = Coverage
  Writers = {w1, w2}
  Rebuilder = Rebuilder
  Nobody = Nobody
  MaxWrites = 2
  MaxRebuilds = 0
INVARIANT PointsExact
SYMMETRY MCSymmetry
CHECK_DEADLOCK FALSE
