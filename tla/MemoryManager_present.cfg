SPECIFICATION Spec
CONSTANTS
  Pages = {p1, p2, p3}
  NumFrames = 2
  TLBCapacity = 1
  NoPage = NoPage
INVARIANTS
  PresentMeansResident
