\* Two processors and two pages of eight units.
CONSTANTS
  PageUnits = 8
  Cpus = {c1, c2}
  Pages = {p1, p2}
  MinAlign = 2
  KmallocSizes = {1, 4, 6}
  Caches <- MCCaches
  Break1 = 5
  Break2 = 7
  Wrap = 3
SPECIFICATION Spec
INVARIANTS
  TypeOK
  PagesSound
PROPERTIES
  ImplementsHeap
  BestFit
SYMMETRY MCSymmetry
