SPECIFICATION Spec
CONSTANTS
  r3 = r3
  t1 = t1
  t2 = t2
  owner1 = owner1
  owner2 = owner2
  slug1 = slug1
  q1 = q1
  q2 = q2
  q3 = q3
  NoDef = NoDef
  Runs = {r1, r2, r3, r4, r5}
  Terms = {t1, t2}
  Owners = {owner1}
  Slugs = {slug1}
  Requests = {q1, q2, q3}
  Workers = 3
  Ops = {"save", "import", "approved"}
  Stored = {r3, r4, r5}
  Hosted = {r1}
  Proposing = {r1, r2, r3, r4, r5}
  TermOf <- StoredTerm
  OwnerOf <- OneOwner
  SlugOf <- OneSlug
INVARIANTS
  DuplicateImportsAgree
PROPERTIES
  RequestsEnd
CHECK_DEADLOCK FALSE
