SPECIFICATION Spec
CONSTANTS
  r3 = r3
  t1 = t1
  t2 = t2
  owner1 = owner1
  owner2 = owner2
  slug1 = slug1
  q1 = q1
  q2 = q2
  NoDef = NoDef
  Runs = {r1, r2, r3}
  Terms = {t1, t2}
  Owners = {owner1}
  Slugs = {slug1}
  Requests = {q1, q2}
  Workers = 2
  Ops = {"approved"}
  Stored = {r1, r2, r3}
  Hosted = {}
  Proposing = {r1, r2, r3}
  TermOf <- OneTerm
  OwnerOf <- OneOwner
  SlugOf <- OneSlug
SYMMETRY Symmetry
INVARIANTS
  OneActiveCanonical
CHECK_DEADLOCK FALSE
