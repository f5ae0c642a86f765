SPECIFICATION Spec
CONSTANTS
  r3 = r3
  t1 = t1
  t2 = t2
  owner1 = owner1
  owner2 = owner2
  slug1 = slug1
  q1 = q1
  q2 = q2
  q3 = q3
  NoDef = NoDef
  Runs = {r1, r2, r3}
  Terms = {t1, t2}
  Owners = {owner1, owner2}
  Slugs = {slug1}
  Requests = {q1, q2, q3}
  Workers = 3
  Ops = {"approved", "rejected", "lookup"}
  Stored = {r1, r2, r3}
  Hosted = {}
  Proposing = {r1, r2, r3}
  TermOf <- OneTerm
  OwnerOf <- TwoOwners
  SlugOf <- OneSlug
SYMMETRY Symmetry
INVARIANTS
  TypeOK
  DecisionsAudited
  AnsweredDecisionsHold
  PromotionAttributed
  SupersededOnce
  LookupNeverTorn
PROPERTIES
  GovernedStays
CHECK_DEADLOCK FALSE
