SPECIFICATION Spec
CONSTANTS
  r3 = r3
  t1 = t1
  t2 = t2
  owner1 = owner1
  owner2 = owner2
  slug1 = slug1
  q1 = q1
  q2 = q2
  q3 = q3
  q4 = q4
  NoDef = NoDef
  Runs = {r1, r2, r3}
  Terms = {t1, t2}
  Owners = {owner1}
  Slugs = {slug1}
  Requests = {q1, q2, q3, q4}
  Workers = 1
  Ops = {"import", "approved", "rejected"}
  Stored = {r2, r3}
  Hosted = {r1}
  Proposing = {r1, r2, r3}
  TermOf <- OneTerm
  OwnerOf <- OneOwner
  SlugOf <- OneSlug
SYMMETRY Symmetry
INVARIANTS
  OneActiveCanonical
  NoKeyConflict
PROPERTIES
  GovernsTerms
CHECK_DEADLOCK FALSE
