SPECIFICATION Spec
CONSTANTS
  q1 = q1
  q2 = q2
  q3 = q3
  q4 = q4
  None = None
  Requests = {q1, q2, q3, q4}
  Workloads <- AllWorkloads
  PackOf <- SmallPackOf
  Hero = "certification_ready"
  Selectable <- Available
  Defaults <- FirstContexts
  Limit = 2
  Clients = 2
INVARIANTS
  TypeOK
  SelectionWhole
  CachedIsGoverned
  RecentlyUsedStay
  LabelFollowsSelection
  LiveCoversHero
PROPERTIES
  RequestsAnswered
CHECK_DEADLOCK FALSE
