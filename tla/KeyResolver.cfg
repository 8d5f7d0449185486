SPECIFICATION FairSpec
CONSTANTS
  c1 = c1
  c2 = c2
  k1 = k1
  k2 = k2
  f1 = f1
  f2 = f2
  Nobody = Nobody
  Callers <- TwoCallers
  Kids <- TwoKids
  Fetches <- TwoFetches
INVARIANTS SingleFlight CachedKeysAccepted
PROPERTIES AtomicKeysSpec ResolveReturns
